---- MODULE Spec2Model ----
(***************************************************************************)
(* A model of the NES emulator core: the 6502 instruction decoder and its  *)
(* cycle table, the addressing-mode evaluator, the execution unit and the  *)
(* CPU-side memory bus.                                                    *)
(***************************************************************************)
EXTENDS Integers, Sequences, FiniteSets, TLC

VARIABLES
    opcode,          \* the opcode byte handed to decode / get_instruction_duration
    decoded,         \* the result of Instruction::decode
    duration,        \* the result of Instruction::get_instruction_duration
    cpu,             \* the Cpu registers
    memory,          \* the Memory behind the CPU bus
    ppu,             \* the picture generator as seen from the bus
    outcome,         \* "Ok" while ticking; "Err" / "panic" once a tick failed
    executed,        \* the instructions executed so far, with the registers before each
    overflow_checks, \* whether the build panics on arithmetic overflow
    mapper,          \* the Mapper trait object built by get_mapper
    script,          \* the bus operations the host is going to make, in order
    accesses         \* the bus operations made so far, with their results

vars == <<opcode, decoded, duration, cpu, memory, ppu, outcome, executed, overflow_checks,
          mapper, script, accesses>>

Byte == 0..255

(***************************************************************************)
(* Instruction::decode: the opcode table.  A byte without an entry takes   *)
(* the fallthrough arm of the match.                                       *)
(***************************************************************************)
OpcodeTable ==
    0 :> <<"BRK", "Implied">> @@
    1 :> <<"ORA", "IndirectX">> @@
    2 :> <<"JAM", "Implied">> @@
    3 :> <<"SLO", "IndirectX">> @@
    4 :> <<"NOP", "ZeroPage">> @@
    5 :> <<"ORA", "ZeroPage">> @@
    6 :> <<"ASL", "ZeroPage">> @@
    7 :> <<"SLO", "ZeroPage">> @@
    8 :> <<"PHP", "Implied">> @@
    9 :> <<"ORA", "Immediate">> @@
    10 :> <<"ASL", "Accumulator">> @@
    11 :> <<"ANC", "Immediate">> @@
    12 :> <<"NOP", "Absolute">> @@
    13 :> <<"ORA", "Absolute">> @@
    14 :> <<"ASL", "Absolute">> @@
    15 :> <<"SLO", "Absolute">> @@
    16 :> <<"BPL", "Relative">> @@
    17 :> <<"ORA", "IndirectY">> @@
    18 :> <<"JAM", "Implied">> @@
    19 :> <<"SLO", "IndirectY">> @@
    20 :> <<"NOP", "ZeroPageX">> @@
    21 :> <<"ORA", "ZeroPageX">> @@
    22 :> <<"ASL", "ZeroPageX">> @@
    23 :> <<"SLO", "ZeroPageX">> @@
    24 :> <<"CLC", "Implied">> @@
    25 :> <<"ORA", "AbsoluteY">> @@
    26 :> <<"NOP", "Implied">> @@
    27 :> <<"SLO", "AbsoluteY">> @@
    28 :> <<"NOP", "AbsoluteX">> @@
    29 :> <<"ORA", "AbsoluteX">> @@
    30 :> <<"ASL", "AbsoluteX">> @@
    31 :> <<"SLO", "AbsoluteX">> @@
    32 :> <<"JSR", "Absolute">> @@
    33 :> <<"AND", "IndirectX">> @@
    34 :> <<"JAM", "Implied">> @@
    35 :> <<"RLA", "IndirectX">> @@
    36 :> <<"BIT", "ZeroPage">> @@
    37 :> <<"AND", "ZeroPage">> @@
    38 :> <<"ROL", "ZeroPage">> @@
    39 :> <<"RLA", "ZeroPage">> @@
    40 :> <<"PLP", "Implied">> @@
    41 :> <<"AND", "Immediate">> @@
    42 :> <<"ROL", "Accumulator">> @@
    43 :> <<"ANC", "Immediate">> @@
    44 :> <<"BIT", "Absolute">> @@
    45 :> <<"AND", "Absolute">> @@
    46 :> <<"ROL", "Absolute">> @@
    47 :> <<"RLA", "Absolute">> @@
    48 :> <<"BMI", "Relative">> @@
    49 :> <<"AND", "IndirectY">> @@
    50 :> <<"JAM", "Implied">> @@
    51 :> <<"RLA", "IndirectY">> @@
    52 :> <<"NOP", "ZeroPageX">> @@
    53 :> <<"AND", "ZeroPageX">> @@
    54 :> <<"ROL", "ZeroPageX">> @@
    55 :> <<"RLA", "ZeroPageX">> @@
    56 :> <<"SEC", "Implied">> @@
    57 :> <<"AND", "AbsoluteY">> @@
    58 :> <<"NOP", "Implied">> @@
    59 :> <<"RLA", "AbsoluteY">> @@
    60 :> <<"NOP", "AbsoluteX">> @@
    61 :> <<"AND", "AbsoluteX">> @@
    62 :> <<"ROL", "AbsoluteX">> @@
    63 :> <<"RLA", "AbsoluteX">> @@
    64 :> <<"RTI", "Implied">> @@
    65 :> <<"EOR", "IndirectX">> @@
    66 :> <<"JAM", "Implied">> @@
    67 :> <<"SRE", "IndirectX">> @@
    68 :> <<"NOP", "ZeroPage">> @@
    69 :> <<"EOR", "ZeroPage">> @@
    70 :> <<"LSR", "ZeroPage">> @@
    71 :> <<"SRE", "ZeroPage">> @@
    72 :> <<"PHA", "Implied">> @@
    73 :> <<"EOR", "Immediate">> @@
    74 :> <<"LSR", "Accumulator">> @@
    75 :> <<"ALR", "Immediate">> @@
    76 :> <<"JMP", "Absolute">> @@
    77 :> <<"EOR", "Absolute">> @@
    78 :> <<"LSR", "Absolute">> @@
    79 :> <<"SRE", "Absolute">> @@
    80 :> <<"BVC", "Relative">> @@
    81 :> <<"EOR", "IndirectY">> @@
    82 :> <<"JAM", "Implied">> @@
    83 :> <<"SRE", "IndirectY">> @@
    84 :> <<"NOP", "ZeroPageX">> @@
    85 :> <<"EOR", "ZeroPageX">> @@
    86 :> <<"LSR", "ZeroPageX">> @@
    87 :> <<"SRE", "ZeroPageX">> @@
    88 :> <<"CLI", "Implied">> @@
    89 :> <<"EOR", "AbsoluteY">> @@
    90 :> <<"NOP", "Implied">> @@
    91 :> <<"SRE", "AbsoluteY">> @@
    92 :> <<"NOP", "AbsoluteX">> @@
    93 :> <<"EOR", "AbsoluteX">> @@
    94 :> <<"LSR", "AbsoluteX">> @@
    95 :> <<"SRE", "AbsoluteX">> @@
    96 :> <<"RTS", "Implied">> @@
    97 :> <<"ADC", "IndirectX">> @@
    98 :> <<"JAM", "Implied">> @@
    99 :> <<"RRA", "IndirectX">> @@
    100 :> <<"NOP", "ZeroPage">> @@
    101 :> <<"ADC", "ZeroPage">> @@
    102 :> <<"ROR", "ZeroPage">> @@
    103 :> <<"RRA", "ZeroPage">> @@
    104 :> <<"PLA", "Implied">> @@
    105 :> <<"ADC", "Immediate">> @@
    106 :> <<"ROR", "Accumulator">> @@
    107 :> <<"ARR", "Immediate">> @@
    108 :> <<"JMP", "Indirect">> @@
    109 :> <<"ADC", "Absolute">> @@
    110 :> <<"ROR", "Absolute">> @@
    111 :> <<"RRA", "Absolute">> @@
    112 :> <<"BVS", "Relative">> @@
    113 :> <<"ADC", "IndirectY">> @@
    114 :> <<"JAM", "Implied">> @@
    115 :> <<"RRA", "IndirectY">> @@
    116 :> <<"NOP", "ZeroPageX">> @@
    117 :> <<"ADC", "ZeroPageX">> @@
    118 :> <<"ROR", "ZeroPageX">> @@
    119 :> <<"RRA", "ZeroPageX">> @@
    120 :> <<"SEI", "Implied">> @@
    121 :> <<"ADC", "AbsoluteY">> @@
    122 :> <<"NOP", "Implied">> @@
    123 :> <<"RRA", "AbsoluteY">> @@
    124 :> <<"NOP", "AbsoluteX">> @@
    125 :> <<"ADC", "AbsoluteX">> @@
    126 :> <<"ROR", "AbsoluteX">> @@
    127 :> <<"RRA", "AbsoluteX">> @@
    128 :> <<"NOP", "Immediate">> @@
    129 :> <<"STA", "IndirectX">> @@
    130 :> <<"NOP", "Immediate">> @@
    131 :> <<"SAX", "IndirectX">> @@
    132 :> <<"STY", "ZeroPage">> @@
    133 :> <<"STA", "ZeroPage">> @@
    134 :> <<"STX", "ZeroPage">> @@
    135 :> <<"SAX", "ZeroPage">> @@
    136 :> <<"DEY", "Implied">> @@
    138 :> <<"TXA", "Implied">> @@
    139 :> <<"ANE", "Immediate">> @@
    140 :> <<"STY", "Absolute">> @@
    141 :> <<"STA", "Absolute">> @@
    142 :> <<"STX", "Absolute">> @@
    143 :> <<"SAX", "Absolute">> @@
    144 :> <<"BCC", "Relative">> @@
    145 :> <<"STA", "IndirectY">> @@
    146 :> <<"JAM", "Immediate">> @@
    147 :> <<"SHA", "IndirectY">> @@
    148 :> <<"STY", "ZeroPageX">> @@
    149 :> <<"STA", "ZeroPageX">> @@
    150 :> <<"STX", "ZeroPageY">> @@
    151 :> <<"SAX", "ZeroPageY">> @@
    152 :> <<"TYA", "Implied">> @@
    153 :> <<"STA", "AbsoluteY">> @@
    154 :> <<"TXS", "Implied">> @@
    155 :> <<"TAS", "AbsoluteY">> @@
    156 :> <<"SHY", "AbsoluteX">> @@
    157 :> <<"STA", "AbsoluteX">> @@
    158 :> <<"SHX", "AbsoluteY">> @@
    159 :> <<"SHA", "AbsoluteY">> @@
    160 :> <<"LDY", "Immediate">> @@
    161 :> <<"LDA", "IndirectX">> @@
    162 :> <<"LDX", "Immediate">> @@
    163 :> <<"LAX", "IndirectX">> @@
    164 :> <<"LDY", "ZeroPage">> @@
    165 :> <<"LDA", "ZeroPage">> @@
    166 :> <<"LDX", "ZeroPage">> @@
    167 :> <<"LAX", "ZeroPage">> @@
    168 :> <<"TAY", "Implied">> @@
    169 :> <<"LDA", "Immediate">> @@
    170 :> <<"TAX", "Implied">> @@
    171 :> <<"LXA", "Immediate">> @@
    172 :> <<"LDY", "Absolute">> @@
    173 :> <<"LDA", "Absolute">> @@
    174 :> <<"LDX", "Absolute">> @@
    175 :> <<"LAX", "Absolute">> @@
    176 :> <<"BCS", "Relative">> @@
    177 :> <<"LDA", "IndirectY">> @@
    178 :> <<"JAM", "Implied">> @@
    179 :> <<"LAX", "IndirectY">> @@
    180 :> <<"LDY", "ZeroPageX">> @@
    181 :> <<"LDA", "ZeroPageX">> @@
    182 :> <<"LDX", "ZeroPageY">> @@
    183 :> <<"LAX", "ZeroPageY">> @@
    184 :> <<"CLV", "Implied">> @@
    185 :> <<"LDA", "AbsoluteY">> @@
    186 :> <<"TSX", "Implied">> @@
    187 :> <<"LAS", "AbsoluteY">> @@
    188 :> <<"LDY", "AbsoluteX">> @@
    189 :> <<"LDA", "AbsoluteX">> @@
    190 :> <<"LDX", "AbsoluteY">> @@
    191 :> <<"LAX", "AbsoluteY">> @@
    192 :> <<"CPY", "Immediate">> @@
    193 :> <<"CMP", "IndirectX">> @@
    194 :> <<"NOP", "Implied">> @@
    195 :> <<"DCP", "IndirectX">> @@
    196 :> <<"CPY", "ZeroPage">> @@
    197 :> <<"CMP", "ZeroPage">> @@
    198 :> <<"DEC", "ZeroPage">> @@
    199 :> <<"DCP", "ZeroPage">> @@
    200 :> <<"INY", "Implied">> @@
    201 :> <<"CMP", "Immediate">> @@
    202 :> <<"DEX", "Implied">> @@
    203 :> <<"SBX", "Immediate">> @@
    204 :> <<"CPY", "Absolute">> @@
    205 :> <<"CMP", "Absolute">> @@
    206 :> <<"DEC", "Absolute">> @@
    207 :> <<"DCP", "Absolute">> @@
    208 :> <<"BNE", "Relative">> @@
    209 :> <<"CMP", "IndirectY">> @@
    210 :> <<"JAM", "Implied">> @@
    211 :> <<"DCP", "IndirectY">> @@
    212 :> <<"NOP", "ZeroPageX">> @@
    213 :> <<"CMP", "ZeroPageX">> @@
    214 :> <<"DEC", "ZeroPageX">> @@
    215 :> <<"DCP", "ZeroPageX">> @@
    216 :> <<"CLD", "Implied">> @@
    217 :> <<"CMP", "AbsoluteY">> @@
    218 :> <<"NOP", "Implied">> @@
    219 :> <<"DCP", "AbsoluteY">> @@
    220 :> <<"NOP", "AbsoluteX">> @@
    221 :> <<"CMP", "AbsoluteX">> @@
    222 :> <<"DEC", "AbsoluteX">> @@
    223 :> <<"DCP", "AbsoluteX">> @@
    224 :> <<"CPX", "Immediate">> @@
    225 :> <<"SBC", "IndirectX">> @@
    226 :> <<"NOP", "Implied">> @@
    227 :> <<"ISC", "IndirectX">> @@
    228 :> <<"CPX", "ZeroPage">> @@
    229 :> <<"SBC", "ZeroPage">> @@
    230 :> <<"INC", "ZeroPage">> @@
    231 :> <<"ISC", "ZeroPage">> @@
    232 :> <<"INX", "Implied">> @@
    233 :> <<"SBC", "Immediate">> @@
    234 :> <<"NOP", "Implied">> @@
    235 :> <<"USBC", "Immediate">> @@
    236 :> <<"CPX", "Absolute">> @@
    237 :> <<"SBC", "Absolute">> @@
    238 :> <<"INC", "Absolute">> @@
    239 :> <<"ISC", "Absolute">> @@
    240 :> <<"BEQ", "Relative">> @@
    241 :> <<"SBC", "IndirectY">> @@
    242 :> <<"JAM", "Implied">> @@
    243 :> <<"ISC", "IndirectY">> @@
    244 :> <<"NOP", "ZeroPageX">> @@
    245 :> <<"SBC", "ZeroPageX">> @@
    246 :> <<"INC", "ZeroPageX">> @@
    247 :> <<"ISC", "ZeroPageX">> @@
    248 :> <<"SED", "Implied">> @@
    249 :> <<"SBC", "AbsoluteY">> @@
    250 :> <<"NOP", "Implied">> @@
    251 :> <<"ISC", "AbsoluteY">> @@
    252 :> <<"NOP", "AbsoluteX">> @@
    253 :> <<"SBC", "AbsoluteX">> @@
    254 :> <<"INC", "AbsoluteX">> @@
    255 :> <<"ISC", "AbsoluteX">>

decode(b) ==
    IF b \in DOMAIN OpcodeTable
    THEN [instruction_type |-> OpcodeTable[b][1], addressing_mode |-> OpcodeTable[b][2]]
    ELSE [instruction_type |-> "NOP", addressing_mode |-> "Implied"]

length_absolute_y_short(mode) ==
    CASE mode \in {"Accumulator", "Implied"} -> 1
      [] mode \in {"Immediate", "IndirectX", "IndirectY", "Relative",
                   "ZeroPage", "ZeroPageX", "ZeroPageY", "AbsoluteY"} -> 2
      [] mode \in {"Absolute", "AbsoluteX", "Indirect"} -> 3

length(mode) ==
    CASE mode \in {"Accumulator", "Implied"} -> 1
      [] mode \in {"Immediate", "IndirectX", "IndirectY", "Relative",
                   "ZeroPage", "ZeroPageX", "ZeroPageY"} -> 2
      [] mode \in {"Absolute", "AbsoluteX", "AbsoluteY", "Indirect"} -> 3

(***************************************************************************)
(* Instruction::get_instruction_duration.  The result is Ok(cycles),       *)
(* Err(OpcodeError) or a panic (the todo!() arms).                         *)
(***************************************************************************)
Ok(n) == [tag |-> "Ok", cycles |-> n]
OpcodeError == [tag |-> "Err", cycles |-> 0]
Todo == [tag |-> "panic", cycles |-> 0]

Lookup(table, mode, otherwise) ==
    IF mode \in DOMAIN table THEN Ok(table[mode]) ELSE otherwise

DurationCc00 ==
    "Absolute" :> 4 @@ "AbsoluteX" :> 4 @@ "Immediate" :> 2 @@ "Implied" :> 2 @@
    "Relative" :> 2 @@ "ZeroPage" :> 3 @@ "ZeroPageX" :> 4

DurationCc01_slow_indirect_y ==
    "Absolute" :> 4 @@ "AbsoluteX" :> 4 @@ "AbsoluteY" :> 4 @@ "Immediate" :> 2 @@
    "IndirectX" :> 6 @@ "IndirectY" :> 6 @@ "ZeroPage" :> 3 @@ "ZeroPageX" :> 4

DurationCc01 ==
    "Absolute" :> 4 @@ "AbsoluteX" :> 4 @@ "AbsoluteY" :> 4 @@ "Immediate" :> 2 @@
    "IndirectX" :> 6 @@ "IndirectY" :> 5 @@ "ZeroPage" :> 3 @@ "ZeroPageX" :> 4

DurationCc10 ==
    "Accumulator" :> 2 @@ "Absolute" :> 6 @@ "AbsoluteX" :> 7 @@ "AbsoluteY" :> 7 @@
    "Immediate" :> 2 @@ "Implied" :> 2 @@ "ZeroPage" :> 5 @@ "ZeroPageX" :> 6 @@
    "ZeroPageY" :> 6

DurationCc11Rmw ==
    "Absolute" :> 6 @@ "AbsoluteX" :> 7 @@ "AbsoluteY" :> 7 @@ "IndirectX" :> 8 @@
    "IndirectY" :> 8 @@ "ZeroPage" :> 5 @@ "ZeroPageX" :> 6

DurationCc11 ==
    "Absolute" :> 4 @@ "AbsoluteX" :> 7 @@ "AbsoluteY" :> 4 @@ "Immediate" :> 2 @@
    "IndirectX" :> 6 @@ "IndirectY" :> 5 @@ "ZeroPage" :> 3 @@ "ZeroPageX" :> 6 @@
    "ZeroPageY" :> 4

\* The opcodes and cycle counts asserted by
\* test_official_get_instruction_duration.
TestedDurations ==
    0 :> 7 @@ 1 :> 6 @@ 5 :> 3 @@ 6 :> 5 @@ 8 :> 3 @@ 9 :> 2 @@ 10 :> 2 @@ 13 :> 4 @@
    14 :> 6 @@ 16 :> 2 @@ 17 :> 5 @@ 21 :> 4 @@ 22 :> 6 @@ 24 :> 2 @@ 25 :> 4 @@ 29 :> 4 @@
    30 :> 7 @@ 32 :> 6 @@ 33 :> 6 @@ 36 :> 3 @@ 37 :> 3 @@ 38 :> 5 @@ 40 :> 4 @@ 41 :> 2 @@
    42 :> 2 @@ 44 :> 4 @@ 45 :> 4 @@ 46 :> 6 @@ 48 :> 2 @@ 49 :> 5 @@ 53 :> 4 @@ 54 :> 6 @@
    56 :> 2 @@ 57 :> 4 @@ 61 :> 4 @@ 62 :> 7 @@ 64 :> 6 @@ 65 :> 6 @@ 69 :> 3 @@ 70 :> 5 @@
    72 :> 3 @@ 73 :> 2 @@ 74 :> 2 @@ 76 :> 3 @@ 77 :> 4 @@ 78 :> 6 @@ 80 :> 2 @@ 81 :> 5 @@
    85 :> 4 @@ 86 :> 6 @@ 88 :> 2 @@ 89 :> 4 @@ 93 :> 4 @@ 94 :> 7 @@ 96 :> 6 @@ 97 :> 6 @@
    101 :> 3 @@ 102 :> 5 @@ 104 :> 4 @@ 105 :> 2 @@ 106 :> 2 @@ 108 :> 5 @@ 109 :> 4 @@ 110 :> 6 @@
    112 :> 2 @@ 113 :> 5 @@ 117 :> 4 @@ 118 :> 6 @@ 120 :> 2 @@ 121 :> 4 @@ 125 :> 4 @@ 126 :> 7 @@
    129 :> 6 @@ 132 :> 3 @@ 133 :> 3 @@ 134 :> 3 @@ 136 :> 2 @@ 138 :> 2 @@ 140 :> 4 @@ 141 :> 4 @@
    142 :> 4 @@ 144 :> 2 @@ 145 :> 6 @@ 148 :> 4 @@ 149 :> 4 @@ 150 :> 4 @@ 152 :> 2 @@ 153 :> 5 @@
    154 :> 2 @@ 157 :> 5 @@ 160 :> 2 @@ 161 :> 6 @@ 162 :> 2 @@ 164 :> 3 @@ 165 :> 3 @@ 166 :> 3 @@
    168 :> 2 @@ 169 :> 2 @@ 170 :> 2 @@ 172 :> 4 @@ 173 :> 4 @@ 174 :> 4 @@ 176 :> 2 @@ 177 :> 5 @@
    180 :> 4 @@ 181 :> 4 @@ 182 :> 4 @@ 184 :> 2 @@ 185 :> 4 @@ 186 :> 2 @@ 188 :> 4 @@ 189 :> 4 @@
    190 :> 4 @@ 192 :> 2 @@ 193 :> 6 @@ 196 :> 3 @@ 197 :> 3 @@ 198 :> 5 @@ 200 :> 2 @@ 201 :> 2 @@
    202 :> 2 @@ 204 :> 4 @@ 205 :> 4 @@ 206 :> 6 @@ 208 :> 2 @@ 209 :> 5 @@ 213 :> 4 @@ 214 :> 6 @@
    216 :> 2 @@ 217 :> 4 @@ 221 :> 4 @@ 222 :> 7 @@ 224 :> 2 @@ 225 :> 6 @@ 228 :> 3 @@ 229 :> 3 @@
    230 :> 5 @@ 232 :> 2 @@ 233 :> 2 @@ 234 :> 2 @@ 236 :> 4 @@ 237 :> 4 @@ 238 :> 6 @@ 240 :> 2 @@
    241 :> 5 @@ 245 :> 4 @@ 246 :> 6 @@ 248 :> 2 @@ 249 :> 4 @@ 253 :> 4 @@ 254 :> 7

get_instruction_duration(b) ==
    LET cc == b % 4
        instruction == decode(b)
        k == instruction.instruction_type
        m == instruction.addressing_mode
    IN  CASE k = "JMP" /\ m = "Absolute" -> Ok(3)
          [] k = "JMP" /\ m = "Indirect" -> Ok(5)
          [] k = "JSR" /\ m = "Absolute" -> Ok(6)
          [] k = "BRK" /\ m = "Implied" -> Ok(7)
          [] k \in {"PHA", "PHP"} /\ m = "Implied" -> Ok(3)
          [] k \in {"PLA", "PLP"} /\ m = "Implied" -> Ok(4)
          [] k \in {"RTI", "RTS"} /\ m = "Implied" -> Ok(6)
          [] k = "LDX" /\ m = "ZeroPage" -> Ok(3)
          [] k = "LDX" /\ m \in {"ZeroPageY", "Absolute", "AbsoluteY"} -> Ok(4)
          [] k = "STX" /\ m = "ZeroPage" -> Ok(3)
          [] k = "STX" /\ m \in {"ZeroPageY", "Absolute"} -> Ok(4)
          [] k = "STA" /\ m \in {"AbsoluteX", "AbsoluteY"} -> Ok(5)
          [] k = "STA" /\ m = "IndirectY" -> Ok(6)
          [] OTHER ->
               CASE cc = 0 -> Lookup(DurationCc00, m, OpcodeError)
                 [] cc = 1 -> Lookup(DurationCc01, m, OpcodeError)
                 [] cc = 2 -> Lookup(DurationCc10, m, OpcodeError)
                 [] cc = 3 ->
                      IF k \in {"DCP", "ISC", "SLO", "RLA", "SRE", "RRA"}
                      THEN Lookup(DurationCc11Rmw, m, Todo)
                      ELSE Lookup(DurationCc11, m, Todo)

NotDecoded == [instruction_type |-> "none", addressing_mode |-> "none"]
NoDuration == [tag |-> "none", cycles |-> 0]

(***************************************************************************)
(* Bit-level helpers for u8 / u16 arithmetic.                              *)
(***************************************************************************)
None == -1

Bit(v, i) == (v \div (2 ^ i)) % 2

\* The u8 whose bit i is bits[i].
SumBits(bits) ==
    bits[0] + 2 * bits[1] + 4 * bits[2] + 8 * bits[3] + 16 * bits[4] + 32 * bits[5]
      + 64 * bits[6] + 128 * bits[7]

BitAnd(a, b) == SumBits([i \in 0..7 |-> Bit(a, i) * Bit(b, i)])
BitOr(a, b) == SumBits([i \in 0..7 |-> IF Bit(a, i) + Bit(b, i) > 0 THEN 1 ELSE 0])
BitXor(a, b) == SumBits([i \in 0..7 |-> (Bit(a, i) + Bit(b, i)) % 2])

wrapping_add(a, b) == (a + b) % 256
wrapping_sub(a, b) == (a - b + 256) % 256
saturating_add(a, b) == IF a + b > 255 THEN 255 ELSE a + b

\* Sparse arrays: a cell that was never stored holds 0 (the arrays and the
\* unlisted bytes of the ROM image are zero).
Cell(f, i) == IF i \in DOMAIN f THEN f[i] ELSE 0
Store(f, i, v) == [j \in (DOMAIN f) \cup {i} |-> IF j = i THEN v ELSE f[j]]
Empty == [j \in {} |-> 0]

(***************************************************************************)
(* Controller (memory/controller.rs).  The live joypad state belongs to    *)
(* the picture generator (ppu.get_joypad_state()).                         *)
(***************************************************************************)
ButtonOrder == <<"a", "b", "select", "start", "up", "down", "left", "right">>
ButtonsDefault == [n \in {ButtonOrder[i] : i \in 1..8} |-> FALSE]

ControllerNew == [strobe |-> FALSE, buttons |-> ButtonsDefault, read_index |-> 0]

clock_pulse_always(ctl, gen) == [ctl EXCEPT !.buttons = gen.joypad, !.read_index = 0]

clock_pulse(ctl, gen) ==
    IF ctl.strobe
    THEN [ctl EXCEPT !.buttons = gen.joypad, !.read_index = 0]
    ELSE ctl

ControllerWrite(ctl, byte, gen) ==
    clock_pulse([ctl EXCEPT !.strobe = (byte % 2 = 1)], gen)

\* Controller::read: the value read and the controller afterwards; an index
\* above 7 reaches the panic arm.
ControllerRead_no_wrap(ctl, gen) ==
    IF ctl.read_index > 7
    THEN [result |-> "panic", value |-> 0, controller |-> ctl]
    ELSE LET bit == IF ctl.buttons[ButtonOrder[ctl.read_index + 1]] THEN 1 ELSE 0
         IN  [result |-> "Ok", value |-> bit,
              controller |-> clock_pulse([ctl EXCEPT !.read_index = ctl.read_index + 1], gen)]

ControllerRead(ctl, gen) ==
    IF ctl.read_index > 7
    THEN [result |-> "panic", value |-> 0, controller |-> ctl]
    ELSE LET bit == IF ctl.buttons[ButtonOrder[ctl.read_index + 1]] THEN 1 ELSE 0
             idx == IF ctl.read_index + 1 > 7 THEN 0 ELSE ctl.read_index + 1
         IN  [result |-> "Ok", value |-> bit,
              controller |-> clock_pulse([ctl EXCEPT !.read_index = idx], gen)]

(***************************************************************************)
(* Cartridge (memory/mod.rs).  prg_data, chr_data and init_code are Vecs:  *)
(* an index at or past the length panics.                                  *)
(***************************************************************************)
PrgLen(cart) == cart.header.program_rom_size * 16384
ChrLen(cart) ==
    IF cart.header.charactor_memory_size # 0
    THEN cart.header.charactor_memory_size * 8192 ELSE 8192
InitCodeLen(cart) == 256 + cart.header.charactor_memory_size * 8192

\* Cartridge::new applied to a ROM image with the given header fields and
\* PRG bytes (a sparse array over 0 .. 16384 * program_rom_size - 1).
CartridgeNew(number, prg_size, chr_size, prg) ==
    [header |-> [mapper_number |-> number, program_rom_size |-> prg_size,
                 charactor_memory_size |-> chr_size, mirroring |-> "Horizontal"],
     prg_data |-> prg,
     chr_data |-> Empty,
     prg_bank |-> 0, chr_bank_0 |-> 0, chr_bank_1 |-> 0,
     shift_register |-> 16,
     prg_bank_mode |-> "Fixlast",
     chr_bank_mode |-> "Fullswitch",
     pgr_ram |-> Empty,
     chr_ram |-> Empty,
     init_code |-> [i \in {j - (prg_size * 16384 - 256) :
                             j \in {k \in DOMAIN prg : k >= prg_size * 16384 - 256}}
                      |-> prg[i + (prg_size * 16384 - 256)]]]

VecRead(vec, len, i) ==
    IF i < len THEN [result |-> "Ok", value |-> Cell(vec, i)]
               ELSE [result |-> "panic", value |-> 0]

CartridgeRead(cart, address) ==
    CASE cart.header.mapper_number = 0 ->
           IF address < 32768
           THEN [result |-> "Ok", value |-> Cell(cart.pgr_ram, address - 24576)]
           ELSE IF address < 65280
           THEN IF PrgLen(cart) = 0 THEN [result |-> "panic", value |-> 0]
                ELSE [result |-> "Ok", value |-> Cell(cart.prg_data, address % PrgLen(cart))]
           ELSE VecRead(cart.init_code, InitCodeLen(cart), address - 65280)
      [] cart.header.mapper_number = 1 ->
           IF address < 32768
           THEN [result |-> "Ok", value |-> Cell(cart.pgr_ram, address - 24576)]
           ELSE CASE cart.prg_bank_mode = "Fullswitch" ->
                       VecRead(cart.prg_data, PrgLen(cart),
                               address - 32768 + (cart.prg_bank % 16) * 32768)
                  [] cart.prg_bank_mode = "Fixfirst" ->
                       IF address < 49152
                       THEN VecRead(cart.prg_data, PrgLen(cart), address - 32768)
                       ELSE VecRead(cart.prg_data, PrgLen(cart),
                                    address - 49152 + cart.prg_bank * 16384)
                  [] cart.prg_bank_mode = "Fixlast" ->
                       IF address < 49152
                       THEN VecRead(cart.prg_data, PrgLen(cart),
                                    address - 32768 + cart.prg_bank * 16384)
                       ELSE IF address < 65280
                       THEN IF cart.header.program_rom_size = 0
                            THEN [result |-> "panic", value |-> 0]
                            ELSE VecRead(cart.prg_data, PrgLen(cart),
                                         address - 49152
                                           + (cart.header.program_rom_size - 1) * 16384)
                       ELSE VecRead(cart.init_code, InitCodeLen(cart), address - 65280)
      [] OTHER -> [result |-> "Err", value |-> 0]

\* The control-register decode of a fifth serial write (mapper 1).
LatchControl(cart, sr) ==
    [cart EXCEPT
       !.header.mirroring = CASE sr % 4 = 0 -> "SingleScreenLower"
                              [] sr % 4 = 1 -> "SingleScreenUpper"
                              [] sr % 4 = 2 -> "Horizontal"
                              [] sr % 4 = 3 -> "Vertical",
       !.prg_bank_mode = CASE (sr \div 4) % 4 \in {0, 1} -> "Fullswitch"
                           [] (sr \div 4) % 4 = 2 -> "Fixfirst"
                           [] (sr \div 4) % 4 = 3 -> "Fixlast",
       !.chr_bank_mode = IF (sr \div 16) % 2 = 0 THEN "Fullswitch" ELSE "Halfswitch"]

CartridgeWrite(cart, address, value) ==
    CASE cart.header.mapper_number = 0 ->
           IF address < 24576 THEN [result |-> "Err", cartridge |-> cart]
           ELSE IF address < 32768
           THEN [result |-> "Ok",
                 cartridge |-> [cart EXCEPT !.pgr_ram =
                                  Store(@, (address - 24576) % 2048, value)]]
           ELSE IF PrgLen(cart) = 0 THEN [result |-> "panic", cartridge |-> cart]
           ELSE [result |-> "Ok",
                 cartridge |-> [cart EXCEPT !.prg_data =
                                  Store(@, address % PrgLen(cart), value)]]
      [] cart.header.mapper_number = 1 ->
           IF value >= 128
           THEN IF address < 24576 THEN [result |-> "Ok", cartridge |-> cart]
                ELSE IF address < 32768
                THEN [result |-> "Ok",
                      cartridge |-> [cart EXCEPT !.pgr_ram = Store(@, address - 24576, value)]]
                ELSE [result |-> "Ok",
                      cartridge |-> [cart EXCEPT !.header.mirroring = "SingleScreenLower",
                                                 !.prg_bank_mode = "Fixlast",
                                                 !.chr_bank_mode = "Fullswitch"]]
           ELSE LET sr == (cart.shift_register \div 2) + (value % 2) * 16
                    shifted == [cart EXCEPT !.shift_register = sr]
                    done(c) == [result |-> "Ok", cartridge |-> [c EXCEPT !.shift_register = 16]]
                IN  IF cart.shift_register % 2 # 1
                    THEN [result |-> "Ok", cartridge |-> shifted]
                    ELSE CASE address < 24576 -> [result |-> "Err", cartridge |-> shifted]
                           [] address \in 24576..32767 ->
                                done([shifted EXCEPT !.pgr_ram = Store(@, address - 24576, value)])
                           [] address \in 32768..40959 -> done(LatchControl(shifted, sr))
                           [] address \in 40960..49151 -> done([shifted EXCEPT !.chr_bank_0 = sr])
                           [] address \in 49152..57343 -> done([shifted EXCEPT !.chr_bank_1 = sr])
                           [] address >= 57344 -> done([shifted EXCEPT !.prg_bank = sr])
      [] OTHER -> [result |-> "Err", cartridge |-> cart]

(***************************************************************************)
(* Memory (memory/mod.rs): the CPU-side bus.                               *)
(***************************************************************************)
MemoryNew(cart) ==
    [internal_ram |-> Empty, cartridge |-> cart, controller |-> ControllerNew,
     oamdata |-> Empty]

read_ppu_byte(mem, address) ==
    LET cart == mem.cartridge
    IN  IF cart.header.charactor_memory_size # 0
        THEN IF cart.chr_bank_mode = "Fullswitch"
             THEN VecRead(cart.chr_data, ChrLen(cart),
                          address + (cart.chr_bank_0 \div 2) * 8192)
             ELSE IF address < 4096
             THEN VecRead(cart.chr_data, ChrLen(cart), address + cart.chr_bank_0 * 4096)
             ELSE IF address < 8192
             THEN VecRead(cart.chr_data, ChrLen(cart), address + cart.chr_bank_1 * 4096)
             ELSE [result |-> "Err", value |-> 0]
        ELSE VecRead(cart.chr_ram, 8192, address)

read_cpu_mem_unmirrored(mem, address) ==
    CASE address < 8192 -> [result |-> "Ok", value |-> Cell(mem.internal_ram, address)]
      [] address \in 8192..16383 -> read_ppu_byte(mem, address - 8192)
      [] address \in 16384..16405 -> [result |-> "Ok", value |-> 0]
      [] address = 16406 -> [result |-> "panic", value |-> 0]
      [] address \in 16407..24575 -> [result |-> "Ok", value |-> 0]
      [] address >= 24576 -> CartridgeRead(mem.cartridge, address)

read_cpu_mem(mem, address) ==
    CASE address < 8192 -> [result |-> "Ok", value |-> Cell(mem.internal_ram, address % 2048)]
      [] address \in 8192..16383 -> read_ppu_byte(mem, address - 8192)
      [] address \in 16384..16405 -> [result |-> "Ok", value |-> 0]
      [] address = 16406 -> [result |-> "panic", value |-> 0]
      [] address \in 16407..24575 -> [result |-> "Ok", value |-> 0]
      [] address >= 24576 -> CartridgeRead(mem.cartridge, address)

\* Memory::read: the byte read and the bus afterwards (a read of $4016
\* advances the controller).  io is [memory, ppu, result].
ControllerReadResult(io, r) ==
    [io |-> [io EXCEPT !.memory.controller = r.controller, !.result = r.result],
     value |-> r.value]

ReadResult(io, r) == [io |-> [io EXCEPT !.result = r.result], value |-> r.value]

MemoryRead(io, address) ==
    CASE io.result # "Ok" -> [io |-> io, value |-> 0]
      [] address \in 8192..16383 -> [io |-> io, value |-> io.ppu.register_value]
      [] address = 16406 ->
           ControllerReadResult(io, ControllerRead(io.memory.controller, io.ppu))
      [] OTHER -> ReadResult(io, read_cpu_mem(io.memory, address))

\* The $4014 arm of Memory::write: 256 reads through read_cpu_mem, each
\* unwrapped with expect, then the buffer is handed to the picture generator.
OamDma(io, value) ==
    LET src(i) == read_cpu_mem(io.memory, value * 256 + i)
    IN  IF \E i \in 0..255 : src(i).result # "Ok"
        THEN [io EXCEPT !.result = "panic"]
        ELSE LET buffer == [i \in 0..255 |-> src(i).value]
             IN  [io EXCEPT !.memory.oamdata = buffer, !.ppu.oam_dma = buffer]

WriteResult(io, r) == [io EXCEPT !.memory.cartridge = r.cartridge, !.result = r.result]

MemoryWrite(io, address, value) ==
    CASE io.result # "Ok" -> io
      [] address < 8192 ->
           [io EXCEPT !.memory.internal_ram = Store(@, address % 2048, value)]
      [] address \in 8192..16383 ->
           [io EXCEPT !.ppu.registers = Store(@, address % 8, value)]
      [] address \in 16384..16403 -> io
      [] address = 16404 -> OamDma(io, value)
      [] address = 16405 -> io
      [] address = 16406 ->
           [io EXCEPT !.memory.controller = ControllerWrite(@, value, io.ppu)]
      [] address \in 16407..16415 -> io
      [] address >= 16416 ->
           WriteResult(io, CartridgeWrite(io.memory.cartridge, address, value))

\* The picture generator as the bus sees it: the byte its registers read
\* as, the live joypad, the registers written and the last DMA buffer.
PpuNew(reg, pad) ==
    [register_value |-> reg, joypad |-> pad, registers |-> Empty, oam_dma |-> Empty]

(***************************************************************************)
(* Byte slices and Vecs: a length and the bytes that are not zero.  An     *)
(* index or a range outside the length panics.                             *)
(***************************************************************************)
Vec(len, bytes) == [len |-> len, bytes |-> bytes]

\* &v[from..to]; the caller has checked from <= to /\ to <= v.len.
Slice(v, from, to) ==
    Vec(to - from,
        [i \in {j - from : j \in {k \in DOMAIN v.bytes : k >= from /\ k < to}}
           |-> v.bytes[i + from]])

SliceOk(v, from, to) == from >= 0 /\ from <= to /\ to <= v.len

\* [a, b].concat()
VecConcat(a, b) ==
    Vec(a.len + b.len,
        [i \in (DOMAIN a.bytes) \cup {j + a.len : j \in DOMAIN b.bytes}
           |-> IF i < a.len THEN a.bytes[i] ELSE b.bytes[i - a.len]])

VecWrite(v, i, value) ==
    IF i < v.len THEN [result |-> "Ok", vec |-> [v EXCEPT !.bytes = Store(@, i, value)]]
                 ELSE [result |-> "panic", vec |-> v]

(***************************************************************************)
(* Mapper0 (memory/mapper/mapper0.rs).                                     *)
(***************************************************************************)
Mapper0_new(prg_rom, chr_rom) ==
    [kind |-> 0, prg_rom |-> prg_rom, chr_rom |-> chr_rom, prg_ram |-> Empty]

Mapper0_stored(m, w) == [result |-> w.result, mapper |-> [m EXCEPT !.prg_rom = w.vec]]

Mapper0_write(m, address, value) ==
    CASE address \in 24576..32767 ->
           [result |-> "Ok",
            mapper |-> [m EXCEPT !.prg_ram = Store(@, address - 24576, value)]]
      [] address \in 32768..49151 ->
           Mapper0_stored(m, VecWrite(m.prg_rom, address - 32768, value))
      [] address >= 49152 ->
           Mapper0_stored(m, VecWrite(m.prg_rom, address - 49152 + 16384, value))
      [] OTHER -> [result |-> "Err", mapper |-> m]

Mapper0_read(m, address) ==
    CASE address \in 24576..32767 ->
           [result |-> "Ok", value |-> Cell(m.prg_ram, address - 24576)]
      [] address >= 32768 ->
           IF m.prg_rom.len = 0 THEN [result |-> "panic", value |-> 0]
           ELSE [result |-> "Ok", value |-> Cell(m.prg_rom.bytes, address % m.prg_rom.len)]
      [] OTHER -> [result |-> "Err", value |-> 0]

(***************************************************************************)
(* Mapper1 (memory/mapper/mapper1.rs).                                     *)
(***************************************************************************)
Mapper1_new(prg_rom, chr_rom, mirroring) ==
    IF prg_rom.len < 257
    THEN [result |-> "panic", mapper |-> [kind |-> None]]
    ELSE [result |-> "Ok",
          mapper |-> [kind |-> 1, prg_rom |-> prg_rom, chr_rom |-> chr_rom,
                      prg_bank |-> 0, chr_bank_0 |-> 0, chr_bank_1 |-> 0,
                      shift_register |-> 16,
                      prg_bank_mode |-> "Fixlast", chr_bank_mode |-> "Fullswitch",
                      pgr_ram |-> Empty, chr_ram |-> Empty,
                      init_code |-> Slice(prg_rom, prg_rom.len - 257, prg_rom.len),
                      mirroring |-> mirroring]]

\* The control-register decode of a fifth serial write.
Mapper1_control_mode_bits_swapped(m, sr) ==
    [m EXCEPT
       !.mirroring = CASE sr % 4 = 0 -> "SingleScreenLower"
                       [] sr % 4 = 1 -> "SingleScreenUpper"
                       [] sr % 4 = 2 -> "Horizontal"
                       [] sr % 4 = 3 -> "Vertical",
       !.prg_bank_mode = CASE (sr \div 4) % 4 \in {0, 1} -> "Fullswitch"
                           [] (sr \div 4) % 4 = 2 -> "Fixlast"
                           [] (sr \div 4) % 4 = 3 -> "Fixfirst",
       !.chr_bank_mode = IF (sr \div 16) % 2 = 0 THEN "Fullswitch" ELSE "Halfswitch"]

Mapper1_control(m, sr) ==
    [m EXCEPT
       !.mirroring = CASE sr % 4 = 0 -> "SingleScreenLower"
                       [] sr % 4 = 1 -> "SingleScreenUpper"
                       [] sr % 4 = 2 -> "Horizontal"
                       [] sr % 4 = 3 -> "Vertical",
       !.prg_bank_mode = CASE (sr \div 4) % 4 \in {0, 1} -> "Fullswitch"
                           [] (sr \div 4) % 4 = 2 -> "Fixfirst"
                           [] (sr \div 4) % 4 = 3 -> "Fixlast",
       !.chr_bank_mode = IF (sr \div 16) % 2 = 0 THEN "Fullswitch" ELSE "Halfswitch"]

Mapper1_latched(m) == [result |-> "Ok", mapper |-> [m EXCEPT !.shift_register = 16]]

Mapper1_latch_resets_modes(m, address, sr) ==
    CASE address \in 32768..40959 -> Mapper1_latched(Mapper1_control(m, sr))
      [] address \in 40960..49151 -> Mapper1_latched([m EXCEPT !.chr_bank_0 = sr])
      [] address \in 49152..57343 -> Mapper1_latched([m EXCEPT !.chr_bank_1 = sr])
      [] address >= 57344 ->
           Mapper1_latched([m EXCEPT !.prg_bank = sr, !.prg_bank_mode = "Fullswitch"])
      [] OTHER -> [result |-> "Err", mapper |-> m]

\* The fifth serial write: m already holds the shifted register sr.
Mapper1_latch(m, address, sr) ==
    CASE address \in 32768..40959 -> Mapper1_latched(Mapper1_control(m, sr))
      [] address \in 40960..49151 -> Mapper1_latched([m EXCEPT !.chr_bank_0 = sr])
      [] address \in 49152..57343 -> Mapper1_latched([m EXCEPT !.chr_bank_1 = sr])
      [] address >= 57344 -> Mapper1_latched([m EXCEPT !.prg_bank = sr])
      [] OTHER -> [result |-> "Err", mapper |-> m]

Mapper1_shifted_msb_first(m, value) ==
    [m EXCEPT !.shift_register = ((@ * 2) % 32) + (value % 2)]

Mapper1_shifted(m, value) ==
    [m EXCEPT !.shift_register = (@ \div 2) + (value % 2) * 16]

Mapper1_write(m, address, value) ==
    IF value >= 128
    THEN [result |-> "Ok",
          mapper |-> [m EXCEPT !.mirroring = "SingleScreenLower",
                               !.prg_bank_mode = "Fixlast",
                               !.chr_bank_mode = "Fullswitch"]]
    ELSE IF m.shift_register % 2 # 1
    THEN [result |-> "Ok", mapper |-> Mapper1_shifted(m, value)]
    ELSE Mapper1_latch(Mapper1_shifted(m, value), address,
                       Mapper1_shifted(m, value).shift_register)

\* The Fix-last read of $C000-$FEFF: the index is
\* address - 0xc000 + (prg_rom.len() - 1) * 16384 in u32.  The product
\* exceeds u32 from len - 1 = 2^18 on: a panic with overflow checks, the
\* index taken modulo 2^32 otherwise.  `banks` is the factor after that
\* wrap; an index past the end of the Vec panics.
last_bank_index(v, offset, banks) ==
    IF banks > v.len \div 16384
    THEN [result |-> "panic", value |-> 0]
    ELSE VecRead(v.bytes, v.len, offset + banks * 16384)

last_bank_read(v, offset, checks) ==
    IF v.len - 1 >= 262144 /\ checks
    THEN [result |-> "panic", value |-> 0]
    ELSE last_bank_index(v, offset, (v.len - 1) % 262144)

Mapper1_read(m, address, checks) ==
    CASE address < 24576 -> [result |-> "Err", value |-> 0]
      [] address \in 24576..32767 ->
           [result |-> "Ok", value |-> Cell(m.pgr_ram, address - 24576)]
      [] m.prg_bank_mode = "Fullswitch" ->
           VecRead(m.prg_rom.bytes, m.prg_rom.len,
                   address - 32768 + (m.prg_bank % 16) * 32768)
      [] m.prg_bank_mode = "Fixfirst" ->
           IF address < 49152
           THEN VecRead(m.prg_rom.bytes, m.prg_rom.len, address - 32768)
           ELSE VecRead(m.prg_rom.bytes, m.prg_rom.len,
                        address - 49152 + m.prg_bank * 16384)
      [] m.prg_bank_mode = "Fixlast" ->
           IF address < 49152
           THEN IF m.prg_bank * 16384 >= 65536 /\ checks
                THEN [result |-> "panic", value |-> 0]
                ELSE VecRead(m.prg_rom.bytes, m.prg_rom.len,
                             address - 32768 + ((m.prg_bank * 16384) % 65536))
           ELSE IF address < 65280
           THEN last_bank_read(m.prg_rom, address - 49152, checks)
           ELSE VecRead(m.init_code.bytes, m.init_code.len, address - 65280)

(***************************************************************************)
(* The Mapper trait object (memory/mapper.rs).                             *)
(***************************************************************************)
MapperWrite(m, address, value) ==
    IF m.kind = 0 THEN Mapper0_write(m, address, value)
                  ELSE Mapper1_write(m, address, value)

MapperRead(m, address, checks) ==
    IF m.kind = 0 THEN Mapper0_read(m, address)
                  ELSE Mapper1_read(m, address, checks)

(***************************************************************************)
(* Building the mapper from a ROM byte slice: parse_header and get_mapper  *)
(* (memory/mapper.rs), Cartridge::parse_header, Cartridge::new and         *)
(* Memory::new (memory/mod.rs).                                            *)
(***************************************************************************)
Signature == <<78, 69, 83, 26>>

RomByte(rom_bytes, i) == Cell(rom_bytes.bytes, i)

\* Both parse_header functions: rom_bytes[0..4] and rom_bytes[4] ..
\* rom_bytes[8] are indexed without a length check.
parse_header(rom_bytes) ==
    IF rom_bytes.len < 4 THEN [result |-> "panic"]
    ELSE IF \E i \in 1..4 : RomByte(rom_bytes, i - 1) # Signature[i] THEN [result |-> "Err"]
    ELSE IF rom_bytes.len < 9 THEN [result |-> "panic"]
    ELSE [result |-> "Ok",
          program_rom_size |-> RomByte(rom_bytes, 4),
          charactor_memory_size |-> RomByte(rom_bytes, 5),
          mirroring |-> IF RomByte(rom_bytes, 6) % 2 # 0 THEN "Vertical" ELSE "Horizontal",
          trainer |-> Bit(RomByte(rom_bytes, 6), 2) # 0,
          mapper_number |-> (RomByte(rom_bytes, 6) \div 16)
                              + (RomByte(rom_bytes, 7) \div 16) * 16]

total_length(header) ==
    header.charactor_memory_size * 8192 + header.program_rom_size * 16384
      + (IF header.trainer THEN 512 ELSE 0)

prg_rom_start_index(header) == 16 + (IF header.trainer THEN 512 ELSE 0)
prg_rom_end_index(header) == prg_rom_start_index(header) + header.program_rom_size * 16384

NotBuilt(result) == [result |-> result, mapper |-> [kind |-> None]]

\* The tail of get_mapper, once the length check has passed.
mapper_of(rom, header, prg_rom) ==
    CASE header.mapper_number = 0 ->
           [result |-> "Ok",
            mapper |-> Mapper0_new(
                IF header.charactor_memory_size = 1 THEN VecConcat(prg_rom, prg_rom)
                                                    ELSE prg_rom,
                IF header.charactor_memory_size # 0
                THEN Slice(rom, prg_rom_end_index(header), rom.len - 272)
                ELSE Vec(8192, Empty))]
      [] header.mapper_number = 1 ->
           Mapper1_new(
                IF header.charactor_memory_size = 1 THEN VecConcat(prg_rom, prg_rom)
                                                    ELSE prg_rom,
                IF header.charactor_memory_size # 0
                THEN Slice(rom, prg_rom_end_index(header), rom.len - 272)
                ELSE Vec(8192, Empty),
                header.mirroring)
      [] OTHER -> NotBuilt("Err")

mapper_with_header(rom, header) ==
    IF header.result # "Ok" THEN NotBuilt(header.result)
    ELSE IF rom.len < 16 THEN NotBuilt("panic")
    ELSE IF rom.len - 16 # total_length(header) THEN NotBuilt("Err")
    ELSE mapper_of(rom, header,
                   Slice(rom, prg_rom_start_index(header), prg_rom_end_index(header)))

get_mapper(rom) == mapper_with_header(rom, parse_header(rom))

\* No Memory has been built.
NoMemory == [cartridge |-> [header |-> [mapper_number |-> None]]]

NoCartridge(result) == [result |-> result, cartridge |-> NoMemory.cartridge]

cartridge_with_header(rom_bytes, header) ==
    IF header.result # "Ok" THEN NoCartridge(header.result)
    ELSE IF rom_bytes.len < 16 THEN NoCartridge("panic")
    ELSE IF rom_bytes.len - 16 # total_length(header) THEN NoCartridge("Err")
    ELSE IF ~SliceOk(rom_bytes, prg_rom_end_index(header) - 256, rom_bytes.len)
    THEN NoCartridge("panic")
    ELSE [result |-> "Ok",
          cartridge |->
            [CartridgeNew(header.mapper_number, header.program_rom_size,
                          header.charactor_memory_size,
                          Slice(rom_bytes, prg_rom_start_index(header),
                                prg_rom_end_index(header)).bytes)
               EXCEPT !.header.mirroring = header.mirroring,
                      !.chr_data =
                          IF header.charactor_memory_size # 0
                          THEN Slice(rom_bytes, prg_rom_end_index(header),
                                     rom_bytes.len).bytes
                          ELSE Empty,
                      !.init_code = Slice(rom_bytes, prg_rom_end_index(header) - 256,
                                          rom_bytes.len).bytes]]

Cartridge_new(rom_bytes) == cartridge_with_header(rom_bytes, parse_header(rom_bytes))

Memory_built(c) ==
    [result |-> c.result,
     memory |-> IF c.result = "Ok" THEN MemoryNew(c.cartridge) ELSE NoMemory]

Memory_new(rom_bytes) == Memory_built(Cartridge_new(rom_bytes))

(***************************************************************************)
(* Registers (cpu/registers.rs).                                           *)
(***************************************************************************)
StatusRegisterDefault ==
    [carry_bit |-> FALSE, zero_bit |-> FALSE, interrupt_bit |-> FALSE,
     decimal_bit |-> FALSE, overflow_bit |-> FALSE, negative_bit |-> FALSE]

B2N(b) == IF b THEN 1 ELSE 0

get_for_stack(p) ==
    B2N(p.carry_bit) + 2 * B2N(p.zero_bit) + 4 * B2N(p.interrupt_bit)
      + 8 * B2N(p.decimal_bit) + 16 + 32
      + 64 * B2N(p.overflow_bit) + 128 * B2N(p.negative_bit)

set_from_stack_break_as_overflow(p, value) ==
    [p EXCEPT !.carry_bit = Bit(value, 0) # 0,
              !.zero_bit = Bit(value, 1) # 0,
              !.interrupt_bit = Bit(value, 2) # 0,
              !.decimal_bit = Bit(value, 3) # 0,
              !.overflow_bit = Bit(value, 4) # 0,
              !.negative_bit = Bit(value, 7) # 0]

set_from_stack(p, value) ==
    [p EXCEPT !.carry_bit = Bit(value, 0) # 0,
              !.zero_bit = Bit(value, 1) # 0,
              !.interrupt_bit = Bit(value, 2) # 0,
              !.decimal_bit = Bit(value, 3) # 0,
              !.overflow_bit = Bit(value, 6) # 0,
              !.negative_bit = Bit(value, 7) # 0]

\* StatusRegister::get, the byte PHP and BRK push: pushed P sets bit 5 and,
\* for PHP/BRK, bit 4.
status_register_get(p) == get_for_stack(p)

get_lobyte(pc) == pc % 256
get_hibyte(pc) == pc \div 256
set_lobyte(pc, value) == (pc \div 256) * 256 + value
set_hibyte(pc, value) == (pc % 256) + value * 256
increment16(pc) == (pc + 1) % 65536

(***************************************************************************)
(* The machine state threaded through one instruction:                     *)
(* [cpu, memory, ppu, result, overflow_checks].  result is "Ok" while the  *)
(* instruction runs, "Err" once a Result::Err was returned with `?`, and   *)
(* "panic" once the process aborted.  Every step below is a no-op once     *)
(* result is not "Ok".                                                     *)
(***************************************************************************)
Panic(st) == IF st.result = "Ok" THEN [st EXCEPT !.result = "panic"] ELSE st

\* An arithmetic overflow: a panic in a build with overflow checks, a
\* wrapped value otherwise.
Overflow(st) == IF st.overflow_checks THEN Panic(st) ELSE st

SetReg(st, name, v) == IF st.result = "Ok" THEN [st EXCEPT !.cpu[name] = v] ELSE st
SetFlag(st, name, b) ==
    IF st.result = "Ok" THEN [st EXCEPT !.cpu.status_register[name] = b] ELSE st

set_status_if_zero(value, st) == SetFlag(st, "zero_bit", value = 0)
set_status_if_negative(value, st) == SetFlag(st, "negative_bit", Bit(value, 7) > 0)
SetZN(value, st) == set_status_if_negative(value, set_status_if_zero(value, st))

\* Cpu::read_next_value: the byte at PC, then PC incremented.
Fetched(st, r) ==
    [st |-> SetReg(r.io, "program_counter", increment16(st.cpu.program_counter)),
     value |-> r.value]

read_next_value(st) == Fetched(st, MemoryRead(st, st.cpu.program_counter))

(***************************************************************************)
(* Cpu::get_operand_value (cpu/mod.rs): the operand bytes are consumed     *)
(* first, then the mode is evaluated.  The result is [st, value, address]  *)
(* with None for an absent value or address.                               *)
(***************************************************************************)
Operand(r, addr) == [st |-> r.io, value |-> r.value, address |-> addr]

\* The word (memory_ll, byte at hi_addr) used as an address, and the byte there.
DerefAt(r_hh, memory_address) == Operand(MemoryRead(r_hh.io, memory_address), memory_address)
DerefHigh(r_hh, memory_ll) == DerefAt(r_hh, r_hh.value * 256 + memory_ll)
Deref(st, memory_ll, hi_addr) == DerefHigh(MemoryRead(st, hi_addr), memory_ll)

relative_target(pc, ll) ==
    (IF pc >= 32768 THEN pc - 65536 ELSE pc) + (IF ll >= 128 THEN ll - 256 ELSE ll)

\* The operand bytes: [st, ll, hh] after 0, 1 or 2 calls of read_next_value.
OneByte(f1) == [st |-> f1.st, ll |-> f1.value, hh |-> 0]
SecondByte(f1, f2) == [st |-> f2.st, ll |-> f1.value, hh |-> f2.value]
TwoBytes(f1) == SecondByte(f1, read_next_value(f1.st))

operand_bytes(st0, mode) ==
    CASE length(mode) = 1 -> [st |-> st0, ll |-> 0, hh |-> 0]
      [] length(mode) = 2 -> OneByte(read_next_value(st0))
      [] length(mode) = 3 -> TwoBytes(read_next_value(st0))

IndirectFrom(r_ll, abs) ==
    Deref(IF abs + 1 > 65535 THEN Overflow(r_ll.io) ELSE r_ll.io,
          r_ll.value, (abs + 1) % 65536)

IndirectXFrom(r_ll, address) == Deref(r_ll.io, r_ll.value, address + 1)

IndirectYFrom(r_ll, ll, y) ==
    Deref(IF r_ll.value + y > 255 THEN Overflow(r_ll.io) ELSE r_ll.io,
          (r_ll.value + y) % 256, ll + 1)

RelativeTo(st, t) ==
    [st |-> IF t > 32767 \/ t < -32768 THEN Overflow(st) ELSE st,
     value |-> None, address |-> (t + 65536) % 65536]

evaluate_mode(st, mode, ll, abs, x, y) ==
    CASE st.result # "Ok" -> [st |-> st, value |-> None, address |-> None]
      [] mode = "Accumulator" ->
           [st |-> st, value |-> st.cpu.accumulator, address |-> None]
      [] mode = "Absolute" -> Operand(MemoryRead(st, abs), abs)
      [] mode = "AbsoluteX" ->
           Operand(MemoryRead(IF abs + x > 65535 \/ abs + y > 65535 THEN Overflow(st) ELSE st,
                              (abs + y) % 65536),
                   (abs + x) % 65536)
      [] mode = "AbsoluteY" ->
           Operand(MemoryRead(IF abs + y > 65535 THEN Overflow(st) ELSE st,
                              (abs + y) % 65536),
                   (abs + y) % 65536)
      [] mode = "Immediate" -> [st |-> st, value |-> ll, address |-> None]
      [] mode = "Implied" -> [st |-> st, value |-> None, address |-> None]
      [] mode = "Indirect" -> IndirectFrom(MemoryRead(st, abs), abs)
      [] mode = "IndirectX" ->
           IndirectXFrom(MemoryRead(st, saturating_add(ll, x)), saturating_add(ll, x))
      [] mode = "IndirectY" -> IndirectYFrom(MemoryRead(st, ll), ll, y)
      [] mode = "Relative" -> RelativeTo(st, relative_target(st.cpu.program_counter, ll))
      [] mode = "ZeroPage" -> Operand(MemoryRead(st, ll), ll)
      [] mode = "ZeroPageX" ->
           Operand(MemoryRead(st, saturating_add(ll, x)), saturating_add(ll, x))
      [] mode = "ZeroPageY" ->
           Operand(MemoryRead(st, saturating_add(ll, x)), saturating_add(ll, x))

evaluate_operand(f, mode) ==
    evaluate_mode(f.st, mode, f.ll, f.hh * 256 + f.ll,
                  f.st.cpu.x_register, f.st.cpu.y_register)

get_operand_value(st0, mode) == evaluate_operand(operand_bytes(st0, mode), mode)

(***************************************************************************)
(* Instruction::execute (cpu/instructions.rs).                             *)
(***************************************************************************)
StackAddress(st) == 256 + st.cpu.stack_pointer

\* Push: write at $0100+S, then S decremented (not reached if the write failed).
Push_decrement_first(st, value) ==
    LET s1 == SetReg(st, "stack_pointer", wrapping_sub(st.cpu.stack_pointer, 1))
    IN  MemoryWrite(s1, StackAddress(s1), value)

Push(st, value) ==
    LET w == MemoryWrite(st, StackAddress(st), value)
    IN  SetReg(w, "stack_pointer", wrapping_sub(st.cpu.stack_pointer, 1))

\* Pull: S incremented, then the byte at $0100+S.
Pull(st) ==
    LET s1 == SetReg(st, "stack_pointer", wrapping_add(st.cpu.stack_pointer, 1))
        r == MemoryRead(s1, StackAddress(s1))
    IN  [st |-> r.io, value |-> r.value]

\* ADC: the carry-out and overflow predicates.
adc_did_carry_without_ff(acc, op_value, carry, result) ==
    result < acc \/ (result = 0 /\ carry = 1)

adc_did_carry(acc, op_value, carry, result) ==
    result < acc \/ (result = 0 /\ carry = 1) \/ (op_value = 255 /\ carry = 1)

adc_did_overflow(acc, op_value, result) ==
    \/ (acc > 127 /\ op_value > 127 /\ result < 128)
    \/ (acc < 128 /\ op_value < 128 /\ result > 127)

\* The ADC tail shared by ADC and RRA.
ExecADC(st, op_value) ==
    LET acc == st.cpu.accumulator
        carry == B2N(st.cpu.status_register.carry_bit)
        result == wrapping_add(wrapping_add(acc, op_value), carry)
        s1 == SetZN(result, SetReg(st, "accumulator", result))
        s2 == SetFlag(s1, "carry_bit", adc_did_carry(acc, op_value, carry, result))
    IN  SetFlag(s2, "overflow_bit", adc_did_overflow(acc, op_value, result))

\* SBC / USBC: the carry-out predicate.
sbc_did_carry(acc, op_value, carry, result) ==
    ~((result >= acc) /\ (op_value # 0 \/ carry = 1))

isc_did_carry(acc, op_value, carry, result) ==
    ~((result >= acc) /\ (op_value # 0 \/ carry = 1) /\ (op_value # 255))

sbc_did_overflow(acc, op_value, result) ==
    BitAnd(BitAnd(BitXor(acc, op_value), BitXor(acc, result)), 128) # 0

ExecSBC(st, kind, op_value, address) ==
    LET acc == st.cpu.accumulator
        carry == B2N(st.cpu.status_register.carry_bit)
        isc == kind = "ISC"
        s0 == IF isc
              THEN IF address = None THEN Panic(st)
                   ELSE MemoryWrite(st, address, wrapping_add(op_value, 1))
              ELSE st
        result == IF isc THEN wrapping_sub(wrapping_sub(acc, op_value), 2 - carry)
                         ELSE wrapping_sub(wrapping_sub(acc, op_value), 1 - carry)
        did_carry == IF isc THEN isc_did_carry(acc, op_value, carry, result)
                            ELSE sbc_did_carry(acc, op_value, carry, result)
        s1 == SetZN(result, SetReg(s0, "accumulator", result))
        s2 == SetFlag(s1, "carry_bit", did_carry)
    IN  SetFlag(s2, "overflow_bit", sbc_did_overflow(acc, op_value, result))

\* CMP / CPX / CPY and the compare half of DCP.
Compare(st, reg, value) ==
    LET s1 == SetFlag(st, "carry_bit", reg >= value)
        s2 == SetFlag(s1, "zero_bit", reg = value)
    IN  set_status_if_negative(wrapping_sub(reg, value), s2)

compare_register(kind) ==
    CASE kind = "CMP" -> "accumulator"
      [] kind = "CPX" -> "x_register"
      [] kind = "CPY" -> "y_register"

\* LDA / LDX / LDY: the register loaded.
load_register(kind) ==
    CASE kind = "LDA" -> "accumulator"
      [] kind = "LDX" -> "x_register"
      [] kind = "LDY" -> "y_register"

ExecLoad(st, kind, value) == SetZN(value, SetReg(st, load_register(kind), value))

\* Register-to-register transfers: <<source, destination>>.
transfer_registers(kind) ==
    CASE kind = "TAX" -> <<"accumulator", "x_register">>
      [] kind = "TAY" -> <<"accumulator", "y_register">>
      [] kind = "TXA" -> <<"x_register", "accumulator">>
      [] kind = "TYA" -> <<"y_register", "accumulator">>
      [] kind = "TSX" -> <<"stack_pointer", "x_register">>

\* ASL / LSR / ROL / ROR: the shifted byte and the bit shifted out.
shift_result(kind, v, carry) ==
    CASE kind \in {"ASL", "SLO"} -> (v * 2) % 256
      [] kind \in {"LSR", "SRE"} -> v \div 2
      [] kind \in {"ROL", "RLA"} -> ((v * 2) % 256) + carry
      [] kind \in {"ROR", "RRA"} -> (v \div 2) + (carry * 128)

shift_carry(kind, v) ==
    IF kind \in {"ASL", "SLO", "ROL", "RLA"} THEN Bit(v, 7) # 0 ELSE Bit(v, 0) # 0

\* ASL / LSR / ROL / ROR on memory or on the accumulator.
ExecShift(st, kind, value, address) ==
    LET carry == B2N(st.cpu.status_register.carry_bit)
        result == shift_result(kind, value, carry)
        s1 == SetZN(result, SetFlag(st, "carry_bit", shift_carry(kind, value)))
    IN  IF address # None THEN MemoryWrite(s1, address, result)
                          ELSE SetReg(s1, "accumulator", result)

\* Flag instructions: <<flag, value>>.
flag_instruction(kind) ==
    CASE kind = "CLC" -> <<"carry_bit", FALSE>>
      [] kind = "CLD" -> <<"decimal_bit", FALSE>>
      [] kind = "CLI" -> <<"interrupt_bit", FALSE>>
      [] kind = "CLV" -> <<"overflow_bit", FALSE>>
      [] kind = "SEC" -> <<"carry_bit", TRUE>>
      [] kind = "SED" -> <<"decimal_bit", TRUE>>
      [] kind = "SEI" -> <<"interrupt_bit", TRUE>>

\* Branches: the condition under which the branch is taken.
branch_condition(kind, p) ==
    CASE kind = "BCC" -> ~p.carry_bit
      [] kind = "BCS" -> p.carry_bit
      [] kind = "BEQ" -> p.zero_bit
      [] kind = "BMI" -> p.negative_bit
      [] kind = "BNE" -> ~p.zero_bit
      [] kind = "BPL" -> ~p.negative_bit
      [] kind = "BVC" -> ~p.overflow_bit
      [] kind = "BVS" -> p.overflow_bit

ExecBranch(st, kind, address) ==
    IF branch_condition(kind, st.cpu.status_register)
    THEN IF address = None THEN Panic(st)
         ELSE SetReg(SetReg(st, "branch_success", TRUE), "program_counter", address)
    ELSE SetReg(SetReg(st, "branch_success", FALSE), "page_crossing", FALSE)

ExecJSR(st, address) ==
    LET pc == st.cpu.program_counter
        s1 == Push(st, get_hibyte(pc))
        s2 == Push(s1, wrapping_sub(get_lobyte(pc), 1))
    IN  IF address = None THEN Panic(s2) ELSE SetReg(s2, "program_counter", address)

ExecRTS_no_increment(st) ==
    LET lo == Pull(st)
        s1 == SetReg(lo.st, "program_counter",
                     set_lobyte(st.cpu.program_counter, lo.value))
        hi == Pull(s1)
    IN  SetReg(hi.st, "program_counter", set_hibyte(s1.cpu.program_counter, hi.value))

ExecRTS(st) ==
    LET lo == Pull(st)
        s1 == SetReg(lo.st, "program_counter",
                     set_lobyte(st.cpu.program_counter, wrapping_add(lo.value, 1)))
        hi == Pull(s1)
    IN  SetReg(hi.st, "program_counter", set_hibyte(s1.cpu.program_counter, hi.value))

ExecBRK_no_increment(st) ==
    LET s1 == Push(st, get_hibyte(st.cpu.program_counter))
        s2 == Push(s1, get_lobyte(st.cpu.program_counter))
        s3 == Push(s2, status_register_get(s2.cpu.status_register))
        lo == MemoryRead(s3, 65534)
        s4 == SetReg(lo.io, "program_counter", set_lobyte(s3.cpu.program_counter, lo.value))
        hi == MemoryRead(s4, 65535)
        s5 == SetReg(hi.io, "program_counter", set_hibyte(s4.cpu.program_counter, hi.value))
    IN  SetFlag(s5, "interrupt_bit", TRUE)

ExecBRK(st) ==
    LET s0 == SetReg(st, "program_counter", increment16(st.cpu.program_counter))
        s1 == Push(s0, get_hibyte(s0.cpu.program_counter))
        s2 == Push(s1, get_lobyte(s0.cpu.program_counter))
        s3 == Push(s2, status_register_get(s2.cpu.status_register))
        lo == MemoryRead(s3, 65534)
        s4 == SetReg(lo.io, "program_counter", set_lobyte(s3.cpu.program_counter, lo.value))
        hi == MemoryRead(s4, 65535)
        s5 == SetReg(hi.io, "program_counter", set_hibyte(s4.cpu.program_counter, hi.value))
    IN  SetFlag(s5, "interrupt_bit", TRUE)

ExecRTI(st) ==
    LET p == Pull(st)
        s1 == SetReg(p.st, "status_register", set_from_stack(p.st.cpu.status_register, p.value))
        lo == Pull(s1)
        s2 == SetReg(lo.st, "program_counter", set_lobyte(s1.cpu.program_counter, lo.value))
        hi == Pull(s2)
    IN  SetReg(hi.st, "program_counter", set_hibyte(s2.cpu.program_counter, hi.value))

\* The kinds execute has no arm for: they reach the todo!() arm.
Unimplemented ==
    {"ALR", "ANC", "ANE", "ARR", "LAS", "LXA", "SBX", "SHA", "SHX", "SHY", "TAS", "JAM"}

execute_arm(kind, st, value, address, a) ==
    LET NeedValue(body) == IF value = None THEN Panic(st) ELSE body
        NeedAddress(body) == IF address = None THEN Panic(st) ELSE body
        NeedBoth(body) == IF address = None \/ value = None THEN Panic(st) ELSE body
    IN  CASE st.result # "Ok" -> st
          [] kind \in {"LDA", "LDX", "LDY"} -> NeedValue(ExecLoad(st, kind, value))
          [] kind = "LAX" ->
               NeedValue(SetZN(value, SetReg(SetReg(st, "accumulator", value),
                                             "x_register", value)))
          [] kind = "STA" -> NeedAddress(MemoryWrite(st, address, a))
          [] kind = "STX" -> NeedAddress(MemoryWrite(st, address, st.cpu.x_register))
          [] kind = "STY" -> NeedAddress(MemoryWrite(st, address, st.cpu.y_register))
          [] kind = "SAX" -> NeedAddress(MemoryWrite(st, address, BitAnd(st.cpu.x_register, a)))
          [] kind \in {"TAX", "TAY", "TXA", "TYA", "TSX"} ->
               LET t == transfer_registers(kind)
               IN  SetZN(st.cpu[t[1]], SetReg(st, t[2], st.cpu[t[1]]))
          [] kind = "TXS" -> SetReg(st, "stack_pointer", st.cpu.x_register)
          [] kind = "PHA" -> Push(st, a)
          [] kind = "PHP" -> Push(st, status_register_get(st.cpu.status_register))
          [] kind = "PLA" ->
               LET p == Pull(st) IN SetZN(p.value, SetReg(p.st, "accumulator", p.value))
          [] kind = "PLP" ->
               LET p == Pull(st)
               IN  SetReg(p.st, "status_register",
                          set_from_stack(p.st.cpu.status_register, p.value))
          [] kind \in {"INC", "DEC"} ->
               NeedBoth(LET new_value == IF kind = "INC" THEN wrapping_add(value, 1)
                                                        ELSE wrapping_sub(value, 1)
                        IN  SetZN(new_value, MemoryWrite(st, address, new_value)))
          [] kind \in {"INX", "DEX"} ->
               LET v == IF kind = "INX" THEN wrapping_add(st.cpu.x_register, 1)
                                        ELSE wrapping_sub(st.cpu.x_register, 1)
               IN  SetZN(v, SetReg(st, "x_register", v))
          [] kind \in {"INY", "DEY"} ->
               LET v == IF kind = "INY" THEN wrapping_add(st.cpu.y_register, 1)
                                        ELSE wrapping_sub(st.cpu.y_register, 1)
               IN  SetZN(v, SetReg(st, "y_register", v))
          [] kind = "DCP" ->
               NeedBoth(LET new_value == wrapping_sub(value, 1)
                        IN  Compare(MemoryWrite(st, address, new_value), a, new_value))
          [] kind = "ADC" -> NeedValue(ExecADC(st, value))
          [] kind = "RRA" ->
               NeedBoth(LET carry == B2N(st.cpu.status_register.carry_bit)
                            result == shift_result(kind, value, carry)
                            s1 == SetZN(result, SetFlag(st, "carry_bit", shift_carry(kind, value)))
                        IN  ExecADC(MemoryWrite(s1, address, result), result))
          [] kind \in {"SBC", "USBC", "ISC"} -> NeedValue(ExecSBC(st, kind, value, address))
          [] kind \in {"CMP", "CPX", "CPY"} ->
               NeedValue(Compare(st, st.cpu[compare_register(kind)], value))
          [] kind = "AND" -> NeedValue(SetZN(BitAnd(a, value), SetReg(st, "accumulator", BitAnd(a, value))))
          [] kind = "EOR" -> NeedValue(SetZN(BitXor(a, value), SetReg(st, "accumulator", BitXor(a, value))))
          [] kind = "ORA" -> NeedValue(SetZN(BitOr(a, value), SetReg(st, "accumulator", BitOr(a, value))))
          [] kind = "BIT" ->
               NeedValue(SetFlag(set_status_if_negative(value, set_status_if_zero(BitAnd(a, value), st)),
                                 "overflow_bit", Bit(value, 6) > 0))
          [] kind = "SLO" ->
               NeedBoth(LET result == shift_result(kind, value, 0)
                            s1 == set_status_if_zero(result,
                                    SetFlag(st, "carry_bit", shift_carry(kind, value)))
                            s2 == MemoryWrite(s1, address, result)
                            s3 == SetReg(s2, "accumulator", BitOr(a, result))
                        IN  set_status_if_negative(BitOr(a, result), s3))
          [] kind \in {"ASL", "LSR", "ROL", "ROR"} ->
               NeedValue(ExecShift(st, kind, value, address))
          [] kind \in {"SRE", "RLA"} ->
               NeedBoth(LET carry == B2N(st.cpu.status_register.carry_bit)
                            result == shift_result(kind, value, carry)
                            s1 == ExecShift(st, kind, value, address)
                            v == IF kind = "SRE" THEN BitXor(a, result) ELSE BitAnd(a, result)
                        IN  SetZN(v, SetReg(s1, "accumulator", v)))
          [] kind \in {"CLC", "CLD", "CLI", "CLV", "SEC", "SED", "SEI"} ->
               SetFlag(st, flag_instruction(kind)[1], flag_instruction(kind)[2])
          [] kind \in {"BCC", "BCS", "BEQ", "BMI", "BNE", "BPL", "BVC", "BVS"} ->
               ExecBranch(st, kind, address)
          [] kind = "JMP" -> NeedAddress(SetReg(st, "program_counter", address))
          [] kind = "JSR" -> ExecJSR(st, address)
          [] kind = "RTS" -> ExecRTS(st)
          [] kind = "BRK" -> ExecBRK(st)
          [] kind = "RTI" -> ExecRTI(st)
          [] kind = "NOP" -> st
          [] kind \in Unimplemented -> Panic(st)

execute_operand(kind, ov) ==
    execute_arm(kind, ov.st, ov.value, ov.address, ov.st.cpu.accumulator)

execute(instruction, st0) ==
    execute_operand(instruction.instruction_type,
                    get_operand_value(st0, instruction.addressing_mode))

(***************************************************************************)
(* The older execution unit kept in cpu/mod.rs: Instruction::decode knows  *)
(* the official opcodes only and panics on any other byte;                 *)
(* Instruction::execute implements the loads, the stores, INX and INY and  *)
(* leaves every other kind a no-op.                                        *)
(***************************************************************************)
ModOpcodes ==
    {0, 1, 5, 6, 8, 9, 10, 13, 14, 16, 17, 21, 22, 24, 25, 29,
     30, 32, 33, 36, 37, 38, 40, 41, 42, 44, 45, 46, 48, 49, 53, 54,
     56, 57, 61, 62, 64, 65, 69, 70, 72, 73, 74, 76, 77, 78, 80, 81,
     85, 86, 88, 89, 93, 94, 96, 97, 101, 102, 104, 105, 106, 108, 109, 110,
     112, 113, 117, 118, 120, 121, 125, 126, 129, 132, 133, 134, 136, 138, 140, 141,
     142, 144, 145, 148, 149, 150, 152, 153, 154, 157, 160, 161, 162, 164, 165, 166,
     168, 169, 170, 172, 173, 174, 176, 177, 180, 181, 182, 184, 185, 186, 188, 189,
     190, 192, 193, 196, 197, 198, 200, 201, 202, 204, 205, 206, 208, 209, 213, 214,
     216, 217, 221, 222, 224, 225, 228, 229, 230, 232, 233, 234, 236, 237, 238, 240,
     241, 245, 246, 248, 249, 253, 254}

mod_load_register(kind) ==
    CASE kind = "LDA" -> "x_register"
      [] kind = "LDX" -> "x_register"
      [] kind = "LDY" -> "y_register"

mod_execute_arm(kind, st, value, address) ==
        CASE st.result # "Ok" -> st
          [] kind \in {"LDA", "LDX", "LDY"} ->
               IF value = None THEN Panic(st)
               ELSE SetFlag(SetFlag(SetReg(st, mod_load_register(kind), value),
                                    "zero_bit", TRUE),
                            "negative_bit", value > 127)
          [] kind \in {"STA", "STX", "STY"} ->
               IF address = None THEN Panic(st)
               ELSE MemoryWrite(st, address,
                                CASE kind = "STA" -> st.cpu.accumulator
                                  [] kind = "STX" -> st.cpu.x_register
                                  [] kind = "STY" -> st.cpu.y_register)
          [] kind = "INX" ->
               SetZN(wrapping_add(st.cpu.x_register, 1),
                     SetReg(st, "x_register", wrapping_add(st.cpu.x_register, 1)))
          [] kind = "INY" ->
               SetZN(wrapping_add(st.cpu.y_register, 1),
                     SetReg(st, "y_register", wrapping_add(st.cpu.y_register, 1)))
          [] OTHER -> st

mod_execute_operand(kind, ov) == mod_execute_arm(kind, ov.st, ov.value, ov.address)

mod_execute(instruction, st0) ==
    mod_execute_operand(instruction.instruction_type,
                        get_operand_value(st0, instruction.addressing_mode))

(***************************************************************************)
(* The machine.                                                            *)
(***************************************************************************)
MaxSteps == 2

CpuNew(a, x, y, s, pc, p) ==
    [accumulator |-> a, x_register |-> x, y_register |-> y, stack_pointer |-> s,
     program_counter |-> pc, status_register |-> p,
     branch_success |-> FALSE, page_crossing |-> FALSE]

Machine == [cpu |-> cpu, memory |-> memory, ppu |-> ppu, result |-> "Ok",
            overflow_checks |-> overflow_checks]

\* One instruction of the tick driver in its Normal state: the opcode byte
\* at PC is fetched (PC incremented), decoded and executed.
Dispatch(f) ==
    IF f.st.result # "Ok"
    THEN [st |-> f.st, opcode |-> f.value]
    ELSE [st |-> execute(decode(f.value), f.st), opcode |-> f.value]

tick(st0) == Dispatch(read_next_value(st0))

mod_Dispatch(f) ==
    IF f.st.result # "Ok"
    THEN [st |-> f.st, opcode |-> f.value]
    ELSE IF f.value \notin ModOpcodes
    THEN [st |-> Panic(f.st), opcode |-> f.value]
    ELSE [st |-> mod_execute(decode(f.value), f.st), opcode |-> f.value]

mod_tick(st0) == mod_Dispatch(read_next_value(st0))

Commit(t, unit) ==
    /\ cpu' = t.st.cpu
    /\ memory' = t.st.memory
    /\ ppu' = t.st.ppu
    /\ outcome' = t.st.result
    /\ executed' = Append(executed, [opcode |-> t.opcode, unit |-> unit, before |-> cpu])
    /\ UNCHANGED <<overflow_checks, opcode, decoded, duration, mapper, script, accesses>>

Running == outcome = "Ok" /\ Len(executed) < MaxSteps

Step == Running /\ Commit(tick(Machine), "instructions")

StepMod == Running /\ Commit(mod_tick(Machine), "mod")

(***************************************************************************)
(* Initial states: a cartridge whose PRG-ROM holds the given bytes, RAM    *)
(* holding the given bytes, and the registers as given.                    *)
(***************************************************************************)
RamIndex(a) == a % 2048
NromIndex(a) == a % 32768

\* The bytes of `bytes`, placed from CPU address `base` on, that fall in
\* internal RAM (rom = FALSE) or in the cartridge's ROM window (rom = TRUE),
\* keyed by their index there.
Image(base, bytes, rom) ==
    LET At(i) == (base + i - 1) % 65536
        Index(a) == IF rom THEN NromIndex(a) ELSE RamIndex(a)
        inside == {i \in 1..Len(bytes) : IF rom THEN At(i) >= 32768 ELSE At(i) < 8192}
    IN  [k \in {Index(At(i)) : i \in inside} |->
           bytes[CHOOSE i \in inside : Index(At(i)) = k]]

\* A 32-KiB NROM cartridge (mapper 0) holding `bytes` from `base` on, and
\* internal RAM holding whatever part of them lies below $2000.
NromMemory(base, bytes) ==
    [MemoryNew(CartridgeNew(0, 2, 0, Image(base, bytes, TRUE)))
       EXCEPT !.internal_ram = Image(base, bytes, FALSE)]

\* No mapper object has been built.
NoMapper == [kind |-> None]

Boot(c, mem, checks) ==
    /\ cpu = c
    /\ memory = mem
    /\ ppu = PpuNew(0, ButtonsDefault)
    /\ outcome = "Ok"
    /\ executed = <<>>
    /\ overflow_checks = checks
    /\ opcode = 0
    /\ decoded = NotDecoded
    /\ duration = NoDuration
    /\ mapper = NoMapper
    /\ script = <<>>
    /\ accesses = <<>>

Flags(c, z, i, d, v, n) ==
    [carry_bit |-> c, zero_bit |-> z, interrupt_bit |-> i,
     decimal_bit |-> d, overflow_bit |-> v, negative_bit |-> n]

\* The instruction executed last, the registers before it and the byte
\* that follows its opcode.
Last == executed[Len(executed)]
Before == Last.before
LastKind == decode(Last.opcode).instruction_type
LastMode == decode(Last.opcode).addressing_mode
OperandByte == read_cpu_mem(memory, (Before.program_counter + 1) % 65536).value
Ran(unit, kinds) ==
    /\ Len(executed) > 0
    /\ Last.unit = unit
    /\ LastKind \in kinds
After(unit, kinds) == Ran(unit, kinds) /\ outcome = "Ok"

\* The instruction executed before the last one.
Prev == executed[Len(executed) - 1]
AfterPair(first, second) ==
    /\ Len(executed) >= 2
    /\ outcome = "Ok"
    /\ Prev.unit = "instructions" /\ decode(Prev.opcode).instruction_type = first
    /\ Last.unit = "instructions" /\ LastKind = second
RamByte(address) == read_cpu_mem(memory, address).value

(***************************************************************************)
(* The host driving the bus directly: it builds the memory or the mapper   *)
(* from a ROM, writes and reads bytes and changes the live joypad, one     *)
(* operation of its script at a time.  A panic ends the run; an Err is     *)
(* returned to the host, which goes on.                                    *)
(***************************************************************************)
Bus == [memory |-> memory, ppu |-> ppu, result |-> "Ok"]

NextOp == script[Len(accesses) + 1]

Pending(unit, op) ==
    /\ outcome # "panic"
    /\ Len(accesses) < Len(script)
    /\ NextOp.unit = unit
    /\ NextOp.op = op

\* The log entry of the operation being made: its result, the byte read (0
\* for the other operations), the live joypad and the unit's state before it.
Logged(result, value, before) ==
    /\ outcome' = result
    /\ accesses' = Append(accesses, [result |-> result, value |-> value,
                                     joypad |-> ppu.joypad, before |-> before])
    /\ UNCHANGED <<opcode, decoded, duration, cpu, executed, overflow_checks, script>>

BusDone(io, value) ==
    /\ memory' = io.memory
    /\ ppu' = io.ppu
    /\ UNCHANGED mapper
    /\ Logged(io.result, value, memory)

BusWritten(io) == BusDone(io, 0)
BusWrite ==
    /\ Pending("memory", "write")
    /\ BusWritten(MemoryWrite(Bus, NextOp.address, NextOp.value))

BusReadDone(r) == BusDone(r.io, r.value)
BusRead ==
    /\ Pending("memory", "read")
    /\ BusReadDone(MemoryRead(Bus, NextOp.address))

TraitWritten(w) ==
    /\ mapper' = w.mapper
    /\ UNCHANGED <<memory, ppu>>
    /\ Logged(w.result, 0, mapper)
TraitWrite ==
    /\ Pending("mapper", "write")
    /\ TraitWritten(MapperWrite(mapper, NextOp.address, NextOp.value))

TraitReadDone(r) ==
    /\ UNCHANGED <<mapper, memory, ppu>>
    /\ Logged(r.result, r.value, mapper)
TraitRead ==
    /\ Pending("mapper", "read")
    /\ TraitReadDone(MapperRead(mapper, NextOp.address, overflow_checks))

\* The picture generator reads a byte of character data.
ChrReadDone(r) ==
    /\ UNCHANGED <<memory, mapper, ppu>>
    /\ Logged(r.result, r.value, memory)
ChrRead ==
    /\ Pending("memory", "chr_read")
    /\ ChrReadDone(read_ppu_byte(memory, NextOp.address))

\* The player presses or releases buttons: ppu.get_joypad_state() changes.
SetJoypad ==
    /\ Pending("host", "joypad")
    /\ ppu' = [ppu EXCEPT !.joypad = NextOp.joypad]
    /\ UNCHANGED <<memory, mapper>>
    /\ Logged("Ok", 0, ppu.joypad)

MemoryBuilt(r) ==
    /\ memory' = r.memory
    /\ UNCHANGED <<mapper, ppu>>
    /\ Logged(r.result, 0, memory)
BuildMemory ==
    /\ Pending("memory", "new")
    /\ MemoryBuilt(Memory_new(NextOp.rom))

MapperBuilt(r) ==
    /\ mapper' = r.mapper
    /\ UNCHANGED <<memory, ppu>>
    /\ Logged(r.result, 0, mapper)
BuildMapper ==
    /\ Pending("mapper", "new")
    /\ MapperBuilt(get_mapper(NextOp.rom))

Write(unit, address, value) ==
    [unit |-> unit, op |-> "write", address |-> address, value |-> value]
Read(unit, address) == [unit |-> unit, op |-> "read", address |-> address]
Joypad(pad) == [unit |-> "host", op |-> "joypad", joypad |-> pad]
PpuRead(address) == [unit |-> "memory", op |-> "chr_read", address |-> address]
New(unit, rom) == [unit |-> unit, op |-> "new", rom |-> rom]

Host(mem, trait_object, pad, ops, checks) ==
    /\ cpu = CpuNew(0, 0, 0, 253, 0, StatusRegisterDefault)
    /\ memory = mem
    /\ mapper = trait_object
    /\ ppu = PpuNew(0, pad)
    /\ outcome = "Ok"
    /\ executed = <<>>
    /\ overflow_checks = checks
    /\ opcode = 0
    /\ decoded = NotDecoded
    /\ duration = NoDuration
    /\ script = ops
    /\ accesses = <<>>

\* The operations made so far and what the log says about them.
Made == Len(accesses)
Op(i) == script[i]
IsWrite(i) == Op(i).op = "write"
IsRead(i) == Op(i).op = "read"

(***************************************************************************)
(* ADC #M twice, from every accumulator value, operand and carry-in.       *)
(***************************************************************************)
InitAdc ==
    \E acc \in Byte, m \in Byte, c \in BOOLEAN :
        Boot(CpuNew(acc, 0, 0, 253, 32768, Flags(c, FALSE, TRUE, FALSE, FALSE, FALSE)),
             NromMemory(32768, <<105, m, 105, m>>), TRUE)

SpecAdc == InitAdc /\ [][Step]_vars

(***************************************************************************)
(* SBC #M (opcode $E9) or USBC #M (opcode $EB) twice.                      *)
(***************************************************************************)
InitSbc ==
    \E op \in {233, 235}, acc \in Byte, m \in Byte, c \in BOOLEAN :
        Boot(CpuNew(acc, 0, 0, 253, 32768, Flags(c, FALSE, TRUE, FALSE, FALSE, FALSE)),
             NromMemory(32768, <<op, m, op, m>>), TRUE)

SpecSbc == InitSbc /\ [][Step]_vars

(***************************************************************************)
(* CMP #M, CPX #M or CPY #M twice; the three registers hold different      *)
(* values.                                                                 *)
(***************************************************************************)
InitCmp ==
    \E op \in {201, 224, 192}, acc \in Byte, m \in Byte :
        Boot(CpuNew(acc, (acc + 85) % 256, (acc + 170) % 256, 253, 32768,
                    Flags(acc < m, acc # m, TRUE, FALSE, FALSE, FALSE)),
             NromMemory(32768, <<op, m, op, m>>), TRUE)

SpecCmp == InitCmp /\ [][Step]_vars

(***************************************************************************)
(* LDA #v, LDX #v or LDY #v twice, run by either execution unit.           *)
(***************************************************************************)
InitLoad ==
    \E op \in {169, 162, 160}, v \in Byte, acc \in {0, 17}, z \in BOOLEAN, n \in BOOLEAN,
       checks \in BOOLEAN :
        Boot(CpuNew(acc, 34, 51, 253, 32768, Flags(FALSE, z, TRUE, FALSE, FALSE, n)),
             NromMemory(32768, <<op, v, op, v>>), checks)

SpecLoad == InitLoad /\ [][Step \/ StepMod]_vars

(***************************************************************************)
(* Any opcode with sampled operand bytes, index registers and PC           *)
(* (including PCs at which the instruction wraps past $FFFF), run by       *)
(* either execution unit.                                                  *)
(***************************************************************************)
PcSamples == {32768, 65534, 65535, 254}
OperandSamples == {0, 2, 255}
IndexSamples == {<<0, 0>>, <<1, 255>>, <<255, 1>>}

InitPc ==
    \E op \in Byte, ll \in OperandSamples, hh \in OperandSamples,
       xy \in IndexSamples, pc \in PcSamples, checks \in BOOLEAN :
        Boot(CpuNew(129, xy[1], xy[2], 253, pc, Flags(FALSE, FALSE, TRUE, FALSE, FALSE, FALSE)),
             NromMemory(pc, <<op, ll, hh>>), checks)

SpecPc == InitPc /\ [][Step \/ StepMod]_vars

(***************************************************************************)
(* A conditional branch with any offset byte, all four tested flags set or *)
(* all clear, at sampled PCs, in both kinds of build.                      *)
(***************************************************************************)
BranchOpcodes == {16, 48, 80, 112, 144, 176, 208, 240}
BranchPcSamples == {32768, 33008, 33021, 65533, 65534, 240}

InitBranch ==
    \E op \in BranchOpcodes, offset \in Byte, f \in BOOLEAN, pc \in BranchPcSamples,
       checks \in BOOLEAN :
        Boot(CpuNew(0, 0, 0, 253, pc, Flags(f, f, TRUE, FALSE, f, f)),
             NromMemory(pc, <<op, offset>>), checks)

SpecBranch == InitBranch /\ [][Step]_vars

(***************************************************************************)
(* PHA; PLA from every A and S, PHP; PLP from every flag state and S, and  *)
(* PLP of an arbitrary byte found on the stack.                            *)
(***************************************************************************)
StackSamples == {0, 1, 127, 253, 255}

InitPhaPla ==
    \E acc \in Byte, s \in Byte, z \in BOOLEAN :
        Boot(CpuNew(acc, 0, 0, s, 32768, Flags(FALSE, z, TRUE, FALSE, FALSE, ~z)),
             NromMemory(32768, <<72, 104>>), TRUE)

InitPhpPlp ==
    \E c \in BOOLEAN, z \in BOOLEAN, i \in BOOLEAN, d \in BOOLEAN, v \in BOOLEAN,
       n \in BOOLEAN, s \in Byte :
        Boot(CpuNew(0, 0, 0, s, 32768, Flags(c, z, i, d, v, n)),
             NromMemory(32768, <<8, 40>>), TRUE)

InitPlp ==
    \E byte \in Byte, s \in StackSamples, f \in BOOLEAN :
        Boot(CpuNew(0, 0, 0, s, 32768, Flags(f, f, f, f, f, f)),
             [NromMemory(32768, <<40>>) EXCEPT
                !.internal_ram = Store(@, 256 + ((s + 1) % 256), byte)],
             TRUE)

SpecStack == (InitPhaPla \/ InitPhpPlp \/ InitPlp) /\ [][Step]_vars

(***************************************************************************)
(* JSR $9000 at sampled addresses (every address of a page and the         *)
(* addresses around its end, the top of the address space, RAM), with RTS  *)
(* at $9000, from every S.                                                 *)
(***************************************************************************)
JsrPcSamples == (32768..33026) \cup {65533, 253}

InitJsr ==
    \E pc \in JsrPcSamples, s \in Byte :
        Boot(CpuNew(0, 0, 0, s, pc, Flags(FALSE, FALSE, TRUE, FALSE, FALSE, FALSE)),
             [NromMemory(pc, <<32, 0, 144>>) EXCEPT
                !.cartridge.prg_data = Store(@, NromIndex(36864), 96)],
             TRUE)

SpecJsr == InitJsr /\ [][Step]_vars

(***************************************************************************)
(* JMP (pointer) at $8000 with the pointer in the middle or at the end of  *)
(* a page, in RAM or in ROM; the bytes at the pointer, at the start of its *)
(* page and at the address after it are chosen independently.              *)
(***************************************************************************)
PointerSamples == {767, 640, 255, 37119, 37120}
TargetLowSamples == {0, 52, 255}
TargetHighSamples == {18, 86, 144}

Poke(mem, address, value) ==
    IF address < 8192
    THEN [mem EXCEPT !.internal_ram = Store(@, RamIndex(address), value)]
    ELSE [mem EXCEPT !.cartridge.prg_data = Store(@, NromIndex(address), value)]

PageStart(pointer) == pointer - (pointer % 256)

InitJmp ==
    \E pointer \in PointerSamples, low \in TargetLowSamples,
       same \in TargetHighSamples, next \in TargetHighSamples :
        Boot(CpuNew(0, 0, 0, 253, 32768, Flags(FALSE, FALSE, TRUE, FALSE, FALSE, FALSE)),
             Poke(Poke(Poke(NromMemory(32768, <<108, get_lobyte(pointer), get_hibyte(pointer)>>),
                            PageStart(pointer), same),
                       pointer + 1, next),
                  pointer, low),
             TRUE)

SpecJmp == InitJmp /\ [][Step]_vars

(***************************************************************************)
(* One zero-page indexed load or store ($B5 LDA zp,X; $B6 LDX zp,Y; $95    *)
(* STA zp,X; $96 STX zp,Y; $A1 LDA (zp,X)) over a RAM in which every byte  *)
(* of page zero is different and page one differs from page zero.          *)
(***************************************************************************)
ZeroPageOpcodes == {181, 182, 149, 150, 161}
ZeroPageOperands == {0, 1, 128, 254, 255}
ZeroPageIndexes == {0, 1, 2, 127, 128, 255}

PatternByte(i) == (i * 7 + 3 + (i \div 256)) % 256
PatternRam == [i \in 0..2047 |-> PatternByte(i)]

InitZeroPage ==
    \E op \in ZeroPageOpcodes, ll \in ZeroPageOperands,
       x \in ZeroPageIndexes, y \in ZeroPageIndexes :
        Boot(CpuNew(165, x, y, 253, 32768, Flags(FALSE, FALSE, TRUE, FALSE, FALSE, FALSE)),
             [NromMemory(32768, <<op, ll>>) EXCEPT !.internal_ram = PatternRam],
             TRUE)

SpecZeroPage == InitZeroPage /\ [][Step]_vars

(***************************************************************************)
(* LDA (zp),Y ($B1) with the pointer at the start, in the middle or at the *)
(* end of page zero, sampled pointer bytes and Y, in either build.         *)
(***************************************************************************)
IndirectYOperands == {0, 16, 255}
IndirectYIndexes == {0, 1, 128, 255}
PointerLowSamples == {0, 128, 255}
PointerHighSamples == {2, 7, 255}

InitIndirectY ==
    \E ll \in IndirectYOperands, y \in IndirectYIndexes, low \in PointerLowSamples,
       high \in PointerHighSamples, checks \in BOOLEAN :
        Boot(CpuNew(165, 0, y, 253, 32768, Flags(FALSE, FALSE, TRUE, FALSE, FALSE, FALSE)),
             Poke(Poke([NromMemory(32768, <<177, ll>>) EXCEPT !.internal_ram = PatternRam],
                       (ll + 1) % 256, high),
                  ll, low),
             checks)

SpecIndirectY == InitIndirectY /\ [][Step]_vars

(***************************************************************************)
(* One absolute store ($8D STA, $8E STX, $8C STY, $8F SAX) to RAM, to the  *)
(* picture generator's status register, to the controller port or to the   *)
(* port after it; the controller is as constructed.                        *)
(***************************************************************************)
StoreOpcodes == {141, 142, 140, 143}
StoreTargets == {512, 8194, 16406, 16407}
StoreValues == {0, 2, 3, 254}

InitStore ==
    \E op \in StoreOpcodes, target \in StoreTargets,
       a \in StoreValues, x \in StoreValues, y \in StoreValues :
        Boot(CpuNew(a, x, y, 253, 32768, Flags(FALSE, FALSE, TRUE, FALSE, FALSE, FALSE)),
             NromMemory(32768, <<op, get_lobyte(target), get_hibyte(target)>>),
             TRUE)

SpecStore == InitStore /\ [][Step]_vars

(***************************************************************************)
(* One composite read-modify-write instruction on the zero-page byte $10   *)
(* ($07 SLO, $27 RLA, $47 SRE; $C7 DCP, $E7 ISC, $67 RRA) from sampled     *)
(* accumulator values, every memory byte and either carry.  The byte after *)
(* the instruction keeps a copy of the memory byte.                        *)
(***************************************************************************)
AccumulatorSamples ==
    {0, 1, 2, 3, 15, 16, 63, 64, 85, 126, 127, 128, 129, 170, 191, 192, 240, 253, 254, 255}

CompositeStart(op, acc, m, c) ==
    Boot(CpuNew(acc, 0, 0, 253, 32768, Flags(c, FALSE, TRUE, FALSE, FALSE, FALSE)),
         Poke(NromMemory(32768, <<op, 16, m>>), 16, m),
         TRUE)

InitShiftComposite ==
    \E op \in {7, 39, 71}, acc \in AccumulatorSamples, m \in Byte, c \in BOOLEAN :
        CompositeStart(op, acc, m, c)

SpecShiftComposite == InitShiftComposite /\ [][Step]_vars

InitArithmeticComposite ==
    \E op \in {199, 231, 103}, acc \in AccumulatorSamples, m \in Byte, c \in BOOLEAN :
        CompositeStart(op, acc, m, c)

SpecArithmeticComposite == InitArithmeticComposite /\ [][Step]_vars

(***************************************************************************)
(* A write of a page number to $4014, after a write into RAM or alone, on  *)
(* a mapper-0 cartridge whose RAM, PRG-ROM and CHR-ROM hold non-zero       *)
(* patterns.                                                               *)
(***************************************************************************)
DmaPages == 0..255
DmaPrgByte(i) == 1 + ((i + 3 * (i \div 256)) % 253)
DmaChrByte(i) == 1 + ((i + 5 * (i \div 256)) % 251)

DmaMemory ==
    [MemoryNew([CartridgeNew(0, 2, 1, [i \in 0..32767 |-> DmaPrgByte(i)])
                  EXCEPT !.chr_data = [i \in 0..8191 |-> DmaChrByte(i)]])
       EXCEPT !.internal_ram = PatternRam]

DmaScripts ==
    {prefix \o <<Write("memory", 16404, p)>> :
        prefix \in {<<>>, <<Write("memory", 513, 0)>>, <<Write("memory", 2047, 90)>>},
        p \in DmaPages}

InitDma == \E ops \in DmaScripts : Host(DmaMemory, NoMapper, ButtonsDefault, ops, TRUE)

SpecDma == InitDma /\ [][BusWrite]_vars

(***************************************************************************)
(* One DCP (decrement memory, compare) in each of its seven addressing     *)
(* modes ($C7 zp; $D7 zp,X; $CF abs; $DF abs,X; $DB abs,Y; $C3 (zp,X);     *)
(* $D3 (zp),Y): the instruction reads the operand value and writes the     *)
(* value minus one to the operand address.  Every word of page zero points *)
(* into RAM, neighbouring bytes differ, and either build is run.           *)
(***************************************************************************)
DcpOpcodes == {199, 215, 207, 223, 219, 195, 211}
OperandLowSamples == {0, 16, 254, 255}
OperandHighSamples == {2, 7, 255}
OperandXSamples == {0, 1, 255}
OperandYSamples == {0, 2, 255}

OperandByteAt(i) == IF i < 256 THEN (i * 3) % 8 ELSE PatternByte(i)
OperandRam == [i \in 0..2047 |-> OperandByteAt(i)]

InitOperand ==
    \E op \in DcpOpcodes, ll \in OperandLowSamples, hh \in OperandHighSamples,
       x \in OperandXSamples, y \in OperandYSamples, checks \in BOOLEAN :
        Boot(CpuNew(165, x, y, 253, 32768, Flags(FALSE, FALSE, TRUE, FALSE, FALSE, FALSE)),
             [NromMemory(32768, <<op, ll, hh>>) EXCEPT !.internal_ram = OperandRam],
             checks)

SpecOperand == InitOperand /\ [][Step]_vars

(***************************************************************************)
(* BRK at sampled addresses (ROM, the end of a page, RAM) from every S and *)
(* every flag state, with the vector at $FFFE/$FFFF pointing at an RTI in  *)
(* ROM or in RAM.                                                          *)
(***************************************************************************)
BrkPcSamples == {32768, 33023, 253}
HandlerSamples == {36864, 37119, 512}

InitBrk ==
    \E pc \in BrkPcSamples, handler \in HandlerSamples, s \in Byte,
       c \in BOOLEAN, z \in BOOLEAN, i \in BOOLEAN, d \in BOOLEAN, v \in BOOLEAN,
       n \in BOOLEAN :
        Boot(CpuNew(0, 0, 0, s, pc, Flags(c, z, i, d, v, n)),
             [MemoryNew(CartridgeNew(0, 2, 0,
                  Store(Store(Store(Image(pc, <<0, 234>>, TRUE),
                                    NromIndex(36864), 64),
                              NromIndex(65534), get_lobyte(handler)),
                        NromIndex(65535), get_hibyte(handler))))
                EXCEPT !.internal_ram = Store(Image(pc, <<0, 234>>, FALSE), 512, 64)],
             TRUE)

SpecBrk == InitBrk /\ [][Step]_vars

(***************************************************************************)
(* Serial writes to a mapper-1 cartridge (32 KiB of PRG-ROM), through      *)
(* Memory::write or through the Mapper trait object: two five-write loads, *)
(* a load interrupted by a write with bit 7 set, and a load followed by    *)
(* such a write.                                                           *)
(***************************************************************************)
Mmc1Memory == MemoryNew(CartridgeNew(1, 2, 0, Empty))
Mmc1Trait == Mapper1_new(Vec(32768, Empty), Vec(8192, Empty), "Horizontal").mapper

Bits5 == [1..5 -> {0, 1}]
FifthAddresses == {32768, 40959, 40960, 49152, 57343, 57344, 65535}
GroupAddresses == {32768, 40960, 49152, 57344}
OtherAddresses == <<65535, 32768, 49152, 40960>>
ResetValues == {128, 255}

\* Five writes with bit 7 clear whose bit 0 are `bits`; the other bits of
\* the bytes and the addresses of the first four writes vary with the
\* position.
Serial(unit, bits, last) ==
    [i \in 1..5 |-> Write(unit, IF i = 5 THEN last ELSE OtherAddresses[i],
                          bits[i] + (IF i % 2 = 0 THEN 126 ELSE 0))]

LoadScripts(unit) ==
    {Serial(unit, b, a) \o Serial(unit, b2, a2) :
        b \in Bits5, a \in FifthAddresses,
        b2 \in {<<1, 0, 1, 1, 0>>, <<0, 1, 0, 0, 1>>}, a2 \in {32768, 57344}}

InterruptedScripts(unit) ==
    {[i \in 1..k |-> Write(unit, OtherAddresses[i], fill)]
       \o <<Write(unit, ra, rv)>> \o Serial(unit, b, a) :
        k \in 0..4, fill \in {0, 1}, ra \in {32768, 57344}, rv \in ResetValues,
        b \in Bits5, a \in GroupAddresses}

LoadThenResetScripts(unit) ==
    {Serial(unit, b, a) \o <<Write(unit, ra, rv)>> :
        b \in Bits5, a \in GroupAddresses, ra \in GroupAddresses, rv \in ResetValues}

Mapper1Scripts(unit) ==
    LoadScripts(unit) \cup InterruptedScripts(unit) \cup LoadThenResetScripts(unit)

InitMapper1 ==
    \/ \E ops \in Mapper1Scripts("memory") :
          Host(Mmc1Memory, NoMapper, ButtonsDefault, ops, TRUE)
    \/ \E ops \in Mapper1Scripts("mapper") :
          Host(NoMemory, Mmc1Trait, ButtonsDefault, ops, TRUE)

SpecMapper1 == InitMapper1 /\ [][BusWrite \/ TraitWrite]_vars

(***************************************************************************)
(* Mapper 1 with the control register loaded with 27 (vertical mirroring,  *)
(* Fix-first-16K, two 4-KiB CHR banks): a write into the PRG-RAM window    *)
(* $6000-$7FFF in the middle of a serial load of the PRG-bank register.    *)
(***************************************************************************)
PrgRamAddresses == {24576, 28672, 32767}
PrgRamValues == {0, 1, 127, 128, 255}

PrgRamScripts(unit) ==
    {Serial(unit, <<1, 1, 0, 1, 1>>, 32768)
       \o SubSeq(Serial(unit, <<1, 0, 1, 0, 1>>, 57344), 1, k)
       \o <<Write(unit, a, v)>>
       \o SubSeq(Serial(unit, <<1, 0, 1, 0, 1>>, 57344), k + 1, 5) :
        k \in 0..4, a \in PrgRamAddresses, v \in PrgRamValues}

InitPrgRam ==
    \/ \E ops \in PrgRamScripts("memory") :
          Host(Mmc1Memory, NoMapper, ButtonsDefault, ops, TRUE)
    \/ \E ops \in PrgRamScripts("mapper") :
          Host(NoMemory, Mmc1Trait, ButtonsDefault, ops, TRUE)

SpecPrgRam == InitPrgRam /\ [][BusWrite \/ TraitWrite]_vars

(***************************************************************************)
(* Mapper 1, in each PRG-bank mode and with zero to four bits in the shift *)
(* register: a byte is stored at $6001, then a byte is written into the    *)
(* PRG-RAM window and that address or $6001 is read.                       *)
(***************************************************************************)
PrgRamReadAddresses == {24576, 28672, 32767}
PrgRamModePrefixes(unit) ==
    {<<>>} \cup {Serial(unit, c, 32768) : c \in {<<0, 0, 0, 0, 0>>, <<0, 0, 0, 1, 0>>}}

PrgRamReadScripts(unit) ==
    {prefix
       \o SubSeq(Serial(unit, <<1, 0, 1, 0, 1>>, 57344), 1, k)
       \o <<Write(unit, 24577, 200), Write(unit, a, v),
            Read(unit, IF same THEN a ELSE 24577)>> :
        prefix \in PrgRamModePrefixes(unit), k \in 0..4,
        a \in PrgRamReadAddresses, v \in PrgRamValues, same \in BOOLEAN}

InitPrgRamRead ==
    \/ \E ops \in PrgRamReadScripts("memory") :
          Host(Mmc1Memory, NoMapper, ButtonsDefault, ops, TRUE)
    \/ \E ops \in PrgRamReadScripts("mapper") :
          Host(NoMemory, Mmc1Trait, ButtonsDefault, ops, TRUE)

SpecPrgRamRead == InitPrgRamRead /\ [][BusWrite \/ BusRead \/ TraitWrite \/ TraitRead]_vars

(***************************************************************************)
(* Mapper 1 with 2, 4 or 8 PRG banks whose bytes differ from bank to bank: *)
(* an optional load of the control register, a load of the PRG-bank        *)
(* register and a read in $8000-$FFFF.                                     *)
(***************************************************************************)
BankOffsetSamples == {0, 1, 16127, 16128, 16378, 16379, 16380, 16381, 16382, 16383}
BankReadSamples ==
    {32768 + o : o \in BankOffsetSamples} \cup {49152 + o : o \in BankOffsetSamples}
BankCountSamples == {2, 4, 8}
ControlSamples == {0, 4, 8, 12}
PrgBankSamples == 0..7

BankedByte(i) == 1 + ((i + 7 * (i \div 16384) + (i \div 256)) % 251)

BankedImage(len) ==
    [i \in {bank * 16384 + o : bank \in 0..((len \div 16384) - 1), o \in BankOffsetSamples}
       |-> BankedByte(i)]

BankedMemory(banks) == MemoryNew(CartridgeNew(1, banks, 0, BankedImage(banks * 16384)))
BankedTrait(banks) ==
    Mapper1_new(Vec(banks * 16384, BankedImage(banks * 16384)), Vec(8192, Empty),
                "Horizontal").mapper

BitsOf(v) == [i \in 1..5 |-> (v \div (2 ^ (i - 1))) % 2]

PrgBankScripts(unit) ==
    {prefix \o Serial(unit, BitsOf(p), 57344) \o <<Read(unit, a)>> :
        prefix \in {<<>>} \cup {Serial(unit, BitsOf(c), 32768) : c \in ControlSamples},
        p \in PrgBankSamples, a \in BankReadSamples}

InitPrgBank ==
    \E banks \in BankCountSamples, checks \in BOOLEAN :
        \/ \E ops \in PrgBankScripts("memory") :
              Host(BankedMemory(banks), NoMapper, ButtonsDefault, ops, checks)
        \/ \E ops \in PrgBankScripts("mapper") :
              Host(NoMemory, BankedTrait(banks), ButtonsDefault, ops, checks)

SpecPrgBank == InitPrgBank /\ [][BusWrite \/ BusRead \/ TraitWrite \/ TraitRead]_vars

(***************************************************************************)
(* Mapper 1 with 16 or 32 KiB of CHR-ROM whose bytes differ from bank to   *)
(* bank: the control register loaded with 12 (one 8-KiB CHR bank) or 28    *)
(* (two 4-KiB banks), loads of CHR-bank-0 and CHR-bank-1, and a read of    *)
(* character data.                                                         *)
(***************************************************************************)
ChrOffsetSamples == {0, 1, 4095, 4096, 4097, 8191}
ChrSizeBanks == {2, 4}
ChrBankSamples == 0..7

ChrByte(i) == 1 + ((i + 5 * (i \div 4096) + (i \div 256)) % 251)

ChrImage(len) ==
    [i \in {bank * 4096 + o : bank \in 0..((len \div 4096) - 1), o \in {0, 1, 4095}}
       |-> ChrByte(i)]

ChrMemory(size) ==
    MemoryNew([CartridgeNew(1, 2, size, Empty) EXCEPT !.chr_data = ChrImage(size * 8192)])

ChrScripts ==
    {Serial("memory", BitsOf(c), 32768) \o Serial("memory", BitsOf(b0), 40960)
       \o Serial("memory", BitsOf(b1), 49152) \o <<PpuRead(o)>> :
        c \in {12, 28}, b0 \in ChrBankSamples, b1 \in ChrBankSamples, o \in ChrOffsetSamples}

InitChr ==
    \E size \in ChrSizeBanks, ops \in ChrScripts :
        Host(ChrMemory(size), NoMapper, ButtonsDefault, ops, TRUE)

SpecChr == InitChr /\ [][BusWrite \/ ChrRead]_vars

(***************************************************************************)
(* A mapper-0 cartridge with 16 or 32 KiB of PRG-ROM, through Memory or    *)
(* through the Mapper trait object: a write into $8000-$FFFF followed by a *)
(* read there, and two reads.                                              *)
(***************************************************************************)
RomAddressSamples == {32768, 32769, 49151, 49152, 49153, 65279, 65280, 65534, 65535}

\* A PRG-ROM image of `len` bytes: non-zero bytes, different from each
\* other, where the sampled addresses fall.
PrgImage(len) ==
    [i \in {a % len : a \in RomAddressSamples} |-> 1 + ((i + (i \div 256)) % 251)]

NromCartridge(size) == MemoryNew(CartridgeNew(0, size, 0, PrgImage(size * 16384)))
NromTrait(size) == Mapper0_new(Vec(size * 16384, PrgImage(size * 16384)), Vec(8192, Empty))

Mapper0Scripts(unit) ==
    {<<Write(unit, a, v), Read(unit, b)>> :
        a \in RomAddressSamples, v \in {0, 171}, b \in RomAddressSamples}
      \cup {<<Read(unit, a), Read(unit, (a + 16384) % 65536)>> : a \in RomAddressSamples}

InitMapper0 ==
    \E size \in {1, 2} :
        \/ \E ops \in Mapper0Scripts("memory") :
              Host(NromCartridge(size), NoMapper, ButtonsDefault, ops, TRUE)
        \/ \E ops \in Mapper0Scripts("mapper") :
              Host(NoMemory, NromTrait(size), ButtonsDefault, ops, TRUE)

SpecMapper0 == InitMapper0 /\ [][BusWrite \/ BusRead \/ TraitWrite \/ TraitRead]_vars

(***************************************************************************)
(* Internal RAM: two writes to sampled addresses of $0000-$1FFF, then a    *)
(* read.                                                                   *)
(***************************************************************************)
RamSamples == {0, 1, 255, 256, 2047, 2048, 2049, 4095, 4096, 6143, 6145, 8191}
RamValues == {90, 165}

RamScripts ==
    {<<Write("memory", a, v), Write("memory", b, w), Read("memory", c)>> :
        a \in RamSamples, v \in RamValues, b \in RamSamples, w \in RamValues,
        c \in RamSamples}

InitRam ==
    \E ops \in RamScripts : Host(NromCartridge(2), NoMapper, ButtonsDefault, ops, TRUE)

SpecRam == InitRam /\ [][BusWrite \/ BusRead]_vars

(***************************************************************************)
(* The controller port $4016: the strobe written high and then low,        *)
(* followed by up to nine reads while the player changes the buttons; and  *)
(* the strobe written high, followed by reads and button changes.          *)
(***************************************************************************)
Buttons(bits) ==
    [a |-> bits[1] = 1, b |-> bits[2] = 1, select |-> bits[3] = 1, start |-> bits[4] = 1,
     up |-> bits[5] = 1, down |-> bits[6] = 1, left |-> bits[7] = 1, right |-> bits[8] = 1]

PadSamples == {Buttons(<<1, 0, 1, 1, 0, 0, 1, 0>>), Buttons(<<0, 1, 0, 0, 1, 1, 0, 1>>)}

Reads(n) == [i \in 1..n |-> Read("memory", 16406)]

\* The strobe written high and low after `before` earlier reads, then
\* `first` reads, a change of the buttons to `pad` and `rest` more reads.
FrozenScripts ==
    {Reads(before) \o <<Write("memory", 16406, high), Write("memory", 16406, low)>>
       \o Reads(first) \o <<Joypad(pad)>> \o Reads(rest) :
        before \in {0, 1, 3}, high \in {1, 255}, low \in {0, 254},
        first \in 0..8, rest \in {0, 1, 8}, pad \in PadSamples}

TrackingItems == {Read("memory", 16406)} \cup {Joypad(pad) : pad \in PadSamples}

TrackingScripts ==
    {<<Write("memory", 16406, 1), x, y, z>> :
        x \in TrackingItems, y \in TrackingItems, z \in TrackingItems}

InitController ==
    \E pad \in PadSamples, ops \in FrozenScripts \cup TrackingScripts :
        Host(NromCartridge(2), NoMapper, pad, ops, TRUE)

SpecController == InitController /\ [][BusWrite \/ BusRead \/ SetJoypad]_vars

(***************************************************************************)
(* The controller port $4016 from construction: MaxPortOps accesses, each  *)
(* a read unless it is one of up to three writes, which are placed         *)
(* anywhere and set the strobe bit either way.                             *)
(***************************************************************************)
MaxPortOps == 12

PortOp(i, places, bytes) ==
    IF \E k \in 1..3 : places[k] = i
    THEN Write("memory", 16406, bytes[CHOOSE k \in 1..3 : places[k] = i])
    ELSE Read("memory", 16406)

PortScripts ==
    {[i \in 1..MaxPortOps |-> PortOp(i, places, bytes)] :
        places \in [1..3 -> 0..MaxPortOps], bytes \in [1..3 -> {0, 1, 255}]}

InitPort ==
    \E ops \in PortScripts, pad \in PadSamples :
        Host(NromCartridge(2), NoMapper, pad, ops, TRUE)

SpecPort == InitPort /\ [][BusWrite \/ BusRead]_vars

(***************************************************************************)
(* The cartridge window $4020-$FFFF of a mapper-0 and of a mapper-1        *)
(* cartridge, through Memory or through the Mapper trait object: a write   *)
(* and a read at sampled addresses, in both orders.                        *)
(***************************************************************************)
WindowSamples == {16416, 24575, 24576, 32767, 32768, 49151, 49152, 65279, 65280, 65535}

WindowScripts(unit) ==
    {<<Write(unit, a, v), Read(unit, b)>> :
        a \in WindowSamples, v \in {0, 90}, b \in WindowSamples}
      \cup {<<Read(unit, a), Write(unit, b, 90)>> : a \in WindowSamples, b \in WindowSamples}

InitWindow ==
    \/ \E mem \in {NromCartridge(2), Mmc1Memory}, ops \in WindowScripts("memory") :
          Host(mem, NoMapper, ButtonsDefault, ops, TRUE)
    \/ \E m \in {NromTrait(2), Mmc1Trait}, ops \in WindowScripts("mapper") :
          \E checks \in BOOLEAN : Host(NoMemory, m, ButtonsDefault, ops, checks)

SpecWindow == InitWindow /\ [][BusWrite \/ BusRead \/ TraitWrite \/ TraitRead]_vars

(***************************************************************************)
(* Building from a ROM byte slice, through Memory::new or through          *)
(* get_mapper: iNES images with a good or a bad signature, sampled header  *)
(* bytes 4-7, and a length that is the declared one, one byte off, or      *)
(* shorter than the header.                                                *)
(***************************************************************************)
SignatureSamples == {Signature, <<77, 69, 83, 26>>, <<78, 69, 83, 0>>}
PrgSizeSamples == {0, 1, 2}
ChrSizeSamples == {0, 1}
\* Header byte 6: mapper 0, mapper 1, mapper 2, vertical mirroring, trainer.
Flags6Samples == {0, 16, 32, 1, 4}
\* Header byte 7: the upper nibble of the mapper number.
Flags7Samples == {0, 16}
ShortLengths == {0, 3, 4, 8, 15, 16}

DeclaredLength(h4, h5, h6) ==
    16 + h5 * 8192 + h4 * 16384 + (IF Bit(h6, 2) # 0 THEN 512 ELSE 0)

LengthSamples(h4, h5, h6) ==
    ShortLengths \cup {DeclaredLength(h4, h5, h6) + d : d \in {-1, 0, 1}}

RomImageByte(sig, h4, h5, h6, h7, i) ==
    CASE i < 4 -> sig[i + 1]
      [] i = 4 -> h4
      [] i = 5 -> h5
      [] i = 6 -> h6
      [] i = 7 -> h7
      [] i = 16 -> 7
      [] OTHER -> 0

RomImage(sig, h4, h5, h6, h7, len) ==
    Vec(len, [i \in {j \in 0..16 : j < len} |-> RomImageByte(sig, h4, h5, h6, h7, i)])

RomSamples ==
    {RomImage(sig, h4, h5, h6, h7, len) :
        sig \in SignatureSamples, h4 \in PrgSizeSamples, h5 \in ChrSizeSamples,
        h6 \in Flags6Samples, h7 \in Flags7Samples,
        len \in UNION {LengthSamples(p, c, f) :
                          p \in PrgSizeSamples, c \in ChrSizeSamples, f \in Flags6Samples}}

InitRom ==
    \E unit \in {"memory", "mapper"}, rom \in RomSamples :
        Host(NoMemory, NoMapper, ButtonsDefault, <<New(unit, rom)>>, TRUE)

SpecRom == InitRom /\ [][BuildMemory \/ BuildMapper]_vars

(***************************************************************************)
(* The decoder specification: an opcode byte is chosen, then decoded and   *)
(* its duration looked up.                                                 *)
(***************************************************************************)

Idle ==
    /\ cpu = CpuNew(0, 0, 0, 253, 0, StatusRegisterDefault)
    /\ memory = MemoryNew(CartridgeNew(0, 1, 0, Empty))
    /\ ppu = PpuNew(0, ButtonsDefault)
    /\ outcome = "Ok"
    /\ executed = <<>>
    /\ overflow_checks = TRUE
    /\ mapper = NoMapper
    /\ script = <<>>
    /\ accesses = <<>>

InitDecode ==
    /\ opcode \in Byte
    /\ decoded = NotDecoded
    /\ duration = NoDuration
    /\ Idle

Decode ==
    /\ decoded = NotDecoded
    /\ decoded' = decode(opcode)
    /\ UNCHANGED <<opcode, duration, cpu, memory, ppu, outcome, executed, overflow_checks,
                   mapper, script, accesses>>

Duration ==
    /\ duration = NoDuration
    /\ duration' = get_instruction_duration(opcode)
    /\ UNCHANGED <<opcode, decoded, cpu, memory, ppu, outcome, executed, overflow_checks,
                   mapper, script, accesses>>

NextDecode == Decode \/ Duration

SpecDecode == InitDecode /\ [][NextDecode]_vars

(***************************************************************************)
(* C1: every opcode byte decodes to an instruction (a byte without a table *)
(* entry to (NOP, Implied)) and get_instruction_duration returns Ok with a *)
(* cycle count in 2..8 for every opcode byte.                              *)
(***************************************************************************)
C1_DecodeTotalDurationInRange ==
    /\ decoded # NotDecoded =>
         /\ decoded.instruction_type \in {OpcodeTable[b][1] : b \in DOMAIN OpcodeTable}
         /\ decoded.addressing_mode \in {OpcodeTable[b][2] : b \in DOMAIN OpcodeTable}
         /\ opcode \notin DOMAIN OpcodeTable =>
              decoded = [instruction_type |-> "NOP", addressing_mode |-> "Implied"]
    /\ duration # NoDuration =>
         /\ duration.tag = "Ok"
         /\ duration.cycles \in 2..8

(***************************************************************************)
(* C2: ADC leaves A = (A + M + C) mod 256, C set iff the unsigned sum      *)
(* exceeds 255, V set iff A and M have the same sign and the result the    *)
(* opposite one, Z set iff the result is 0 and N equal to its bit 7.       *)
(***************************************************************************)
C2_AdcResultAndFlags ==
    After("instructions", {"ADC"}) /\ LastMode = "Immediate" =>
        LET a == Before.accumulator
            m == OperandByte
            sum == a + m + B2N(Before.status_register.carry_bit)
            p == cpu.status_register
        IN  /\ cpu.accumulator = sum % 256
            /\ p.carry_bit = (sum > 255)
            /\ p.overflow_bit = ((a >= 128) = (m >= 128) /\ (sum % 256 >= 128) # (a >= 128))
            /\ p.zero_bit = (sum % 256 = 0)
            /\ p.negative_bit = (sum % 256 >= 128)

C2_AdcExample ==
    /\ After("instructions", {"ADC"})
    /\ Before.accumulator = 80 /\ OperandByte = 80 /\ Before.status_register.carry_bit
    /\ cpu.accumulator = 161
    /\ cpu.status_register.negative_bit /\ cpu.status_register.overflow_bit
    /\ ~cpu.status_register.carry_bit /\ ~cpu.status_register.zero_bit

(***************************************************************************)
(* C3: SBC and USBC leave A = (A - M - (1 - C)) mod 256, C set iff no      *)
(* borrow occurred (A >= M + 1 - C), V set iff A and M differ in sign and  *)
(* the result differs in sign from A, Z set iff the result is 0 and N      *)
(* equal to its bit 7.                                                     *)
(***************************************************************************)
C3_SbcResultAndFlags ==
    After("instructions", {"SBC", "USBC"}) /\ LastMode = "Immediate" =>
        LET a == Before.accumulator
            m == OperandByte
            borrow == 1 - B2N(Before.status_register.carry_bit)
            r == (a - m - borrow + 512) % 256
            p == cpu.status_register
        IN  /\ cpu.accumulator = r
            /\ p.carry_bit = (a >= m + borrow)
            /\ p.overflow_bit = ((a >= 128) # (m >= 128) /\ (r >= 128) # (a >= 128))
            /\ p.zero_bit = (r = 0)
            /\ p.negative_bit = (r >= 128)

(***************************************************************************)
(* C4: CMP, CPX and CPY leave A (and X, Y) unchanged and set N, Z and C to *)
(* the values SBC produces from the same register value and operand with   *)
(* carry-in 1: C iff reg >= M, Z iff reg = M, N = bit 7 of (reg - M) mod   *)
(* 256.                                                                    *)
(***************************************************************************)
SbcWithCarryIn1(reg, m) ==
    ExecSBC([Machine EXCEPT !.cpu.accumulator = reg,
                            !.cpu.status_register.carry_bit = TRUE],
            "SBC", m, None).cpu.status_register

C4_CompareAsSbc ==
    After("instructions", {"CMP", "CPX", "CPY"}) /\ LastMode = "Immediate" =>
        LET reg == Before[compare_register(LastKind)]
            m == OperandByte
            p == cpu.status_register
            sbc == SbcWithCarryIn1(reg, m)
        IN  /\ cpu.accumulator = Before.accumulator
            /\ cpu.x_register = Before.x_register
            /\ cpu.y_register = Before.y_register
            /\ p.carry_bit = (reg >= m)
            /\ p.zero_bit = (reg = m)
            /\ p.negative_bit = ((reg - m + 256) % 256 >= 128)
            /\ p.carry_bit = sbc.carry_bit
            /\ p.zero_bit = sbc.zero_bit
            /\ p.negative_bit = sbc.negative_bit

(***************************************************************************)
(* C5: LDA, LDX and LDY store the operand value in A, X and Y              *)
(* respectively, leave the other two registers unchanged, set Z iff the    *)
(* value is 0 and N to its bit 7 (LDA #$80 from A = 0 gives A = $80, N = 1,*)
(* Z = 0); this is stated of both execution units.                         *)
(***************************************************************************)
C5_LoadRegisterAndFlags ==
    /\ Len(executed) > 0
    /\ outcome = "Ok"
    /\ LastKind \in {"LDA", "LDX", "LDY"}
    /\ LastMode = "Immediate"
    =>
        LET v == OperandByte
            Expected(reg, kind) == IF LastKind = kind THEN v ELSE Before[reg]
        IN  /\ cpu.accumulator = Expected("accumulator", "LDA")
            /\ cpu.x_register = Expected("x_register", "LDX")
            /\ cpu.y_register = Expected("y_register", "LDY")
            /\ cpu.status_register.zero_bit = (v = 0)
            /\ cpu.status_register.negative_bit = (v >= 128)

(***************************************************************************)
(* C6: fetching and executing an instruction that is not JAM and not a     *)
(* jump, branch, subroutine or interrupt instruction advances PC (mod      *)
(* 65536) by exactly the byte length of its addressing mode; the PC        *)
(* reached when the instruction fails after its operand fetch counts too.  *)
(***************************************************************************)
PcChangingKinds ==
    {"JMP", "JSR", "RTS", "RTI", "BRK",
     "BCC", "BCS", "BEQ", "BMI", "BNE", "BPL", "BVC", "BVS"}

SpecifiedLength ==
    [mode \in {"Implied", "Accumulator"} |-> 1] @@
    [mode \in {"Immediate", "ZeroPage", "ZeroPageX", "ZeroPageY",
               "IndirectX", "IndirectY"} |-> 2] @@
    [mode \in {"Absolute", "AbsoluteX", "AbsoluteY"} |-> 3]

C6_PcAdvancesByLength ==
    /\ Len(executed) > 0
    /\ LastKind \notin PcChangingKinds \cup {"JAM"}
    /\ (Last.unit = "mod" => Last.opcode \in ModOpcodes)
    =>
        /\ LastMode \in DOMAIN SpecifiedLength
        /\ cpu.program_counter =
             (Before.program_counter + SpecifiedLength[LastMode]) % 65536

C6_ThreeBytesAcrossTop ==
    /\ After("instructions", {"LDA"})
    /\ LastMode = "Absolute"
    /\ Before.program_counter = 65535
    /\ cpu.program_counter = 2

(***************************************************************************)
(* C7: a conditional branch never fails; when its condition is false PC is *)
(* the address after its two bytes, when true PC is that address plus the  *)
(* operand taken as a signed 8-bit offset, mod 65536.                      *)
(***************************************************************************)
BranchKinds == {"BCC", "BCS", "BEQ", "BMI", "BNE", "BPL", "BVC", "BVS"}
SignedOffset == IF OperandByte >= 128 THEN OperandByte - 256 ELSE OperandByte

C7_BranchTarget ==
    Ran("instructions", BranchKinds) =>
        /\ outcome = "Ok"
        /\ cpu.program_counter =
             IF branch_condition(LastKind, Before.status_register)
             THEN (Before.program_counter + 2 + SignedOffset + 65536) % 65536
             ELSE (Before.program_counter + 2) % 65536

(***************************************************************************)
(* C8: PHA followed by PLA leaves A and S at the values they had before    *)
(* the PHA, Z set iff A = 0 and N equal to bit 7 of A.                     *)
(***************************************************************************)
C8_PhaPlaRoundTrip ==
    AfterPair("PHA", "PLA") =>
        /\ cpu.accumulator = Prev.before.accumulator
        /\ cpu.stack_pointer = Prev.before.stack_pointer
        /\ cpu.status_register.zero_bit = (Prev.before.accumulator = 0)
        /\ cpu.status_register.negative_bit = (Prev.before.accumulator >= 128)

C8_RoundTripAcrossStackWrap ==
    /\ AfterPair("PHA", "PLA")
    /\ Prev.before.stack_pointer = 0
    /\ Prev.before.accumulator = 128
    /\ Prev.before.status_register.zero_bit
    /\ cpu.accumulator = 128
    /\ cpu.stack_pointer = 0

(***************************************************************************)
(* C9: PHP followed by PLP restores C, Z, I, D, V, N and S; the byte PHP   *)
(* pushes has bits 4 and 5 set; PLP takes the flags from bits 0-3, 6 and 7 *)
(* of the byte pulled, whatever its bits 4 and 5.                          *)
(***************************************************************************)
C9_PhpPlpRoundTrip ==
    /\ AfterPair("PHP", "PLP") =>
          /\ cpu.status_register = Prev.before.status_register
          /\ cpu.stack_pointer = Prev.before.stack_pointer
    /\ After("instructions", {"PHP"}) =>
          LET pushed == RamByte(256 + Before.stack_pointer)
          IN  /\ Bit(pushed, 4) = 1
              /\ Bit(pushed, 5) = 1
              /\ cpu.stack_pointer = (Before.stack_pointer + 255) % 256
    /\ After("instructions", {"PLP"}) =>
          LET pulled == RamByte(256 + cpu.stack_pointer)
              p == cpu.status_register
          IN  /\ p.carry_bit = (Bit(pulled, 0) = 1)
              /\ p.zero_bit = (Bit(pulled, 1) = 1)
              /\ p.interrupt_bit = (Bit(pulled, 2) = 1)
              /\ p.decimal_bit = (Bit(pulled, 3) = 1)
              /\ p.overflow_bit = (Bit(pulled, 6) = 1)
              /\ p.negative_bit = (Bit(pulled, 7) = 1)

C9_RoundTripAllFlagsSet ==
    /\ AfterPair("PHP", "PLP")
    /\ Prev.before.status_register = Flags(TRUE, TRUE, TRUE, TRUE, TRUE, TRUE)
    /\ cpu.status_register = Flags(TRUE, TRUE, TRUE, TRUE, TRUE, TRUE)
    /\ RamByte(256 + cpu.stack_pointer) = 255

(***************************************************************************)
(* C10: JSR followed by RTS at the target leaves PC at the address of the  *)
(* instruction after the JSR and S at the value it had before the JSR.     *)
(***************************************************************************)
C10_JsrRtsRoundTrip ==
    AfterPair("JSR", "RTS") =>
        /\ cpu.program_counter = (Prev.before.program_counter + 3) % 65536
        /\ cpu.stack_pointer = Prev.before.stack_pointer

C10_ReturnToPageBoundary ==
    /\ AfterPair("JSR", "RTS")
    /\ Prev.before.program_counter = 33021
    /\ Before.program_counter = 36864
    /\ cpu.program_counter = 33024

(***************************************************************************)
(* C11: BRK followed by RTI at the handler leaves PC at the address of the *)
(* BRK opcode + 2, C, Z, I, D, V, N and S at the values they had before    *)
(* the BRK; after the BRK alone I is set, PC holds the little-endian word  *)
(* at $FFFE/$FFFF and the status byte on top of the stack has bit 4 set.   *)
(***************************************************************************)
C11_BrkRtiRoundTrip ==
    /\ AfterPair("BRK", "RTI") =>
          /\ cpu.program_counter = (Prev.before.program_counter + 2) % 65536
          /\ cpu.status_register = Prev.before.status_register
          /\ cpu.stack_pointer = Prev.before.stack_pointer
    /\ After("instructions", {"BRK"}) =>
          /\ cpu.status_register.interrupt_bit
          /\ cpu.program_counter = RamByte(65534) + 256 * RamByte(65535)
          /\ cpu.stack_pointer = (Before.stack_pointer + 253) % 256
          /\ Bit(RamByte(256 + ((cpu.stack_pointer + 1) % 256)), 4) = 1
          /\ RamByte(256 + ((cpu.stack_pointer + 2) % 256))
                = get_lobyte((Before.program_counter + 2) % 65536)
          /\ RamByte(256 + ((cpu.stack_pointer + 3) % 256))
                = get_hibyte((Before.program_counter + 2) % 65536)

C11_ReturnAcrossPageWithInterruptClear ==
    /\ AfterPair("BRK", "RTI")
    /\ Prev.before.program_counter = 33023
    /\ Prev.before.stack_pointer = 1
    /\ ~Prev.before.status_register.interrupt_bit
    /\ Prev.before.status_register.carry_bit
    /\ Before.program_counter = 36864
    /\ Before.status_register.interrupt_bit
    /\ cpu.program_counter = 33025
    /\ ~cpu.status_register.interrupt_bit

(***************************************************************************)
(* The mapper-1 registers as the two implementations keep them, and the    *)
(* control register read back from the mirroring selector, the PRG-bank    *)
(* mode and the CHR-bank mode (the two Switch-32K encodings of the PRG     *)
(* mode, 0 and 1, are one mode).                                           *)
(***************************************************************************)
Mmc1Of(mem, trait_object) ==
    IF trait_object.kind = 1
    THEN [shift_register |-> trait_object.shift_register,
          mirroring |-> trait_object.mirroring,
          prg_bank_mode |-> trait_object.prg_bank_mode,
          chr_bank_mode |-> trait_object.chr_bank_mode,
          chr_bank_0 |-> trait_object.chr_bank_0,
          chr_bank_1 |-> trait_object.chr_bank_1,
          prg_bank |-> trait_object.prg_bank]
    ELSE [shift_register |-> mem.cartridge.shift_register,
          mirroring |-> mem.cartridge.header.mirroring,
          prg_bank_mode |-> mem.cartridge.prg_bank_mode,
          chr_bank_mode |-> mem.cartridge.chr_bank_mode,
          chr_bank_0 |-> mem.cartridge.chr_bank_0,
          chr_bank_1 |-> mem.cartridge.chr_bank_1,
          prg_bank |-> mem.cartridge.prg_bank]

Mmc1 == Mmc1Of(memory, mapper)
Mmc1Before(i) ==
    IF Op(i).unit = "mapper" THEN Mmc1Of(NoMemory, accesses[i].before)
                             ELSE Mmc1Of(accesses[i].before, NoMapper)

MirroringCode(name) ==
    CASE name = "SingleScreenLower" -> 0
      [] name = "SingleScreenUpper" -> 1
      [] name = "Horizontal" -> 2
      [] name = "Vertical" -> 3
PrgModeCodes(name) ==
    CASE name = "Fullswitch" -> {0, 1}
      [] name = "Fixfirst" -> {2}
      [] name = "Fixlast" -> {3}
ChrModeCode(name) == IF name = "Fullswitch" THEN 0 ELSE 1

ControlHolds(regs, v) ==
    /\ MirroringCode(regs.mirroring) = v % 4
    /\ (v \div 4) % 4 \in PrgModeCodes(regs.prg_bank_mode)
    /\ ChrModeCode(regs.chr_bank_mode) = v \div 16

IsSerialWrite(i) == IsWrite(i) /\ Op(i).value < 128 /\ Op(i).address >= 32768
IsResetWrite(i) == IsWrite(i) /\ Op(i).value >= 128 /\ Op(i).address >= 32768

\* The 5-bit value whose bit j is bit 0 of the byte written by operation
\* first + j.
Assembled(first) ==
    (Op(first).value % 2) + 2 * (Op(first + 1).value % 2) + 4 * (Op(first + 2).value % 2)
      + 8 * (Op(first + 3).value % 2) + 16 * (Op(first + 4).value % 2)

RegisterHolds(regs, address, v) ==
    CASE (address \div 8192) % 4 = 0 -> ControlHolds(regs, v)
      [] (address \div 8192) % 4 = 1 -> regs.chr_bank_0 = v
      [] (address \div 8192) % 4 = 2 -> regs.chr_bank_1 = v
      [] (address \div 8192) % 4 = 3 -> regs.prg_bank = v

FiveSerialWritesFromEmpty ==
    /\ Made >= 5
    /\ \A i \in (Made - 4)..Made : IsSerialWrite(i)
    /\ Mmc1Before(Made - 4).shift_register = 16

(***************************************************************************)
(* C12: mapper 1, starting from an empty shift register: after five        *)
(* consecutive writes with bit 7 clear to $8000-$FFFF, the register        *)
(* selected by bits 13-14 of the fifth write's address holds the 5-bit     *)
(* value whose bit i is bit 0 of the (i+1)-th byte written, and the shift  *)
(* register is empty again.                                                *)
(***************************************************************************)
C12_FiveWritesLatch ==
    FiveSerialWritesFromEmpty =>
        /\ \A i \in (Made - 4)..Made : accesses[i].result = "Ok"
        /\ RegisterHolds(Mmc1, Op(Made).address, Assembled(Made - 4))
        /\ Mmc1.shift_register = 16

C12_SecondLoadIntoPrgBank ==
    /\ FiveSerialWritesFromEmpty
    /\ Made = 10
    /\ Op(Made).unit = "memory"
    /\ Op(Made).address = 57344
    /\ Assembled(Made - 4) = 13
    /\ Mmc1.prg_bank = 13
    /\ Mmc1.chr_bank_0 = 31

Registers(regs) ==
    <<regs.mirroring, regs.prg_bank_mode, regs.chr_bank_mode,
      regs.chr_bank_0, regs.chr_bank_1, regs.prg_bank>>

\* Operation r is a write with bit 7 set that follows k <= 4 serial writes
\* made from the empty shift register, and only serial writes follow it.
ResetAfterPartialLoad(r) ==
    /\ r \in 1..Made
    /\ r <= 5
    /\ IsResetWrite(r)
    /\ \A i \in 1..(r - 1) : IsSerialWrite(i)
    /\ \A i \in (r + 1)..Made : IsSerialWrite(i)
    /\ Mmc1Before(1).shift_register = 16

(***************************************************************************)
(* C13: mapper 1: a write with bit 7 set resets the shift register.  After *)
(* k <= 4 serial writes and one such write, the next four serial writes    *)
(* latch no register, and the fifth latches the value assembled from those *)
(* five writes, leaving the shift register empty.                          *)
(***************************************************************************)
C13_ResetRestartsLoad ==
    \A r \in 1..Made :
        ResetAfterPartialLoad(r) =>
            /\ Made - r \in 1..4 => Registers(Mmc1) = Registers(Mmc1Before(Made))
            /\ Made - r = 5 =>
                  /\ RegisterHolds(Mmc1, Op(Made).address, Assembled(r + 1))
                  /\ Mmc1.shift_register = 16

(***************************************************************************)
(* C14: mapper 1: a write with bit 7 set to $8000-$FFFF succeeds and ORs   *)
(* the control register with $0C and nothing more: the PRG-bank mode       *)
(* becomes Fix-last-16K, and the mirroring selector, the CHR-bank mode and *)
(* the CHR-bank-0, CHR-bank-1 and PRG-bank registers keep their values.    *)
(***************************************************************************)
C14_ResetKeepsOtherRegisters ==
    (Made >= 1 /\ IsResetWrite(Made)) =>
        /\ accesses[Made].result = "Ok"
        /\ Mmc1.prg_bank_mode = "Fixlast"
        /\ Mmc1.mirroring = Mmc1Before(Made).mirroring
        /\ Mmc1.chr_bank_mode = Mmc1Before(Made).chr_bank_mode
        /\ Mmc1.chr_bank_0 = Mmc1Before(Made).chr_bank_0
        /\ Mmc1.chr_bank_1 = Mmc1Before(Made).chr_bank_1
        /\ Mmc1.prg_bank = Mmc1Before(Made).prg_bank

\* The length of the PRG-ROM the unit in use was built with.
RomLength ==
    IF mapper.kind = 0 THEN mapper.prg_rom.len ELSE PrgLen(memory.cartridge)

InRom(i) == Op(i).address >= 32768

(***************************************************************************)
(* C15: mapper 0: a write to $8000-$FFFF succeeds and changes nothing a    *)
(* read can see: every read of an address a in $8000-$FFFF succeeds and    *)
(* returns byte (a mod ROM length) of the PRG-ROM image the cartridge was  *)
(* built with.                                                             *)
(***************************************************************************)
C15_RomWritesDropped ==
    \A i \in 1..Made :
        /\ (IsWrite(i) /\ InRom(i)) => accesses[i].result = "Ok"
        /\ (IsRead(i) /\ InRom(i)) =>
              /\ accesses[i].result = "Ok"
              /\ accesses[i].value = Cell(PrgImage(RomLength), Op(i).address % RomLength)

\* The memory after operation i, and the byte a CPU read of `address`
\* returns from a given memory.
MemoryAfter(i) == IF i = Made THEN memory ELSE accesses[i + 1].before
ByteRead(mem, address) ==
    MemoryRead([memory |-> mem, ppu |-> ppu, result |-> "Ok"], address).value

InRam(i) == Op(i).address < 8192
Congruent(a, b) == a % 2048 = b % 2048

(***************************************************************************)
(* C16: internal RAM is mirrored every 2 KiB: after a CPU write of v to an *)
(* address a in $0000-$1FFF, a CPU read of an address of $0000-$1FFF       *)
(* congruent to a modulo $0800 returns v, and a read of any other address  *)
(* of $0000-$1FFF returns what it returned before the write.               *)
(***************************************************************************)
C16_RamMirrored ==
    \A i \in 1..Made :
        /\ (IsWrite(i) /\ InRam(i)) =>
              /\ accesses[i].result = "Ok"
              /\ \A b \in RamSamples :
                    ByteRead(MemoryAfter(i), b) =
                        IF Congruent(b, Op(i).address) THEN Op(i).value
                        ELSE ByteRead(accesses[i].before, b)
        /\ (IsRead(i) /\ InRam(i) /\ i = 3) =>
              /\ accesses[i].result = "Ok"
              /\ accesses[i].value =
                    CASE Congruent(Op(3).address, Op(2).address) -> Op(2).value
                      [] Congruent(Op(3).address, Op(1).address) -> Op(1).value
                      [] OTHER -> 0

C16_ReadThroughMirror ==
    /\ Made = 3
    /\ Op(1) = Write("memory", 6145, 165)
    /\ Op(2) = Write("memory", 2047, 90)
    /\ Op(3) = Read("memory", 1)
    /\ accesses[3].value = 165
    /\ ByteRead(memory, 4095) = 90
    /\ ByteRead(memory, 0) = 0

IsStrobeWrite(i, bit) == IsWrite(i) /\ Op(i).address = 16406 /\ Op(i).value % 2 = bit
IsPortRead(i) == IsRead(i) /\ Op(i).address = 16406
IsButtonChange(i) == Op(i).op = "joypad"

\* Operation w writes the strobe high, operation w + 1 writes it low, and
\* only reads of $4016 and button changes follow.
StrobedAt(w) ==
    /\ w + 1 <= Made
    /\ IsStrobeWrite(w, 1)
    /\ IsStrobeWrite(w + 1, 0)
    /\ \A i \in (w + 2)..Made : IsPortRead(i) \/ IsButtonChange(i)

ReadsSince(w) == Cardinality({i \in (w + 2)..Made : IsPortRead(i)})

ReportOrder == <<"a", "b", "select", "start", "up", "down", "left", "right">>

(***************************************************************************)
(* C17: after $4016 is written with bit 0 = 1 and then with bit 0 = 0, the *)
(* n-th read of $4016 (n <= 8) returns button n, in the order A, B,        *)
(* Select, Start, Up, Down, Left, Right, of the joypad state latched while *)
(* the strobe was high, whatever the live joypad does after the strobe     *)
(* fell.                                                                   *)
(***************************************************************************)
C17_FrozenSnapshotReadInOrder ==
    \A w \in 1..Made :
        (StrobedAt(w) /\ IsPortRead(Made) /\ ReadsSince(w) <= 8) =>
            /\ accesses[Made].result = "Ok"
            /\ accesses[Made].value = B2N(accesses[w].joypad[ReportOrder[ReadsSince(w)]])

C17_EighthReadAfterButtonChange ==
    /\ Made = 14
    /\ StrobedAt(4)
    /\ IsButtonChange(9)
    /\ ReadsSince(4) = 8
    /\ accesses[4].joypad.right
    /\ ~ppu.joypad.right
    /\ accesses[Made].value = 1

(***************************************************************************)
(* C18: while the strobe bit is 1, every read of $4016 returns the state   *)
(* button A has at the time of that read, even if the joypad changed since *)
(* the previous access to $4016.                                           *)
(***************************************************************************)
C18_StrobeHighTracksLiveA ==
    \A w \in 1..Made :
        (/\ IsStrobeWrite(w, 1)
         /\ \A i \in (w + 1)..Made : IsPortRead(i) \/ IsButtonChange(i)
         /\ Made > w
         /\ IsPortRead(Made)) =>
            /\ accesses[Made].result = "Ok"
            /\ accesses[Made].value = B2N(accesses[Made].joypad.a)

InWindow(i) == (IsWrite(i) \/ IsRead(i)) /\ Op(i).address \in 16416..65535

(***************************************************************************)
(* C19: no access of the CPU bus to an address in $4020-$FFFF returns an   *)
(* error or aborts the process, whatever the mapper and the address.       *)
(***************************************************************************)
C19_WindowAccessesSucceed ==
    \A i \in 1..Made : InWindow(i) => accesses[i].result = "Ok"

IsBuild(i) == Op(i).op = "new"

BadSignature(rom) == \E i \in 0..3 : i >= rom.len \/ Cell(rom.bytes, i) # Signature[i + 1]

\* The bytes after the 16-byte header are not as many as bytes 4 to 6 of the
\* header declare.
PayloadMismatch(rom) ==
    \/ rom.len < 16
    \/ rom.len - 16 # Cell(rom.bytes, 4) * 16384 + Cell(rom.bytes, 5) * 8192
                        + (IF (Cell(rom.bytes, 6) \div 4) % 2 = 1 THEN 512 ELSE 0)

MapperNumber(rom) == (Cell(rom.bytes, 6) \div 16) + (Cell(rom.bytes, 7) \div 16) * 16

Rejected(rom) == BadSignature(rom) \/ PayloadMismatch(rom) \/ MapperNumber(rom) \notin {0, 1}

(***************************************************************************)
(* C20: building from a byte slice whose signature is wrong, whose payload *)
(* length differs from the declared one, or whose mapper number is neither *)
(* 0 nor 1 returns an error: nothing is built and the process does not     *)
(* abort.                                                                  *)
(***************************************************************************)
C20_BadRomRejected ==
    \A i \in 1..Made :
        (IsBuild(i) /\ Rejected(Op(i).rom)) =>
            /\ accesses[i].result = "Err"
            /\ memory = NoMemory
            /\ mapper = NoMapper

UnofficialKinds ==
    {"SLO", "RLA", "SRE", "RRA", "SAX", "LAX", "DCP", "ISC", "ANC", "ALR", "ARR",
     "ANE", "LXA", "LAS", "SBX", "SHA", "SHX", "SHY", "TAS", "USBC", "JAM"}

(***************************************************************************)
(* C21: executing an instruction that decode returns, in particular one of *)
(* the 21 unofficial kinds, completes and never aborts the process.        *)
(***************************************************************************)
C21_UnofficialKindsComplete ==
    (/\ Len(executed) > 0
     /\ Last.unit = "instructions"
     /\ LastKind \in UnofficialKinds) => outcome # "panic"

JamOpcodes == {2, 18, 34, 50, 66, 82, 98, 114, 146, 178, 210, 242}

JamAt(i) == executed[i].unit = "instructions" /\ executed[i].opcode \in JamOpcodes

(***************************************************************************)
(* C22: once a JAM opcode has been executed the CPU is halted: no error is *)
(* reported, and every later tick leaves PC where it was and executes no   *)
(* other instruction.                                                      *)
(***************************************************************************)
C22_JamHaltsForever ==
    \A i \in 1..Len(executed) :
        JamAt(i) =>
            /\ outcome = "Ok"
            /\ \A j \in (i + 1)..Len(executed) :
                  /\ executed[j].opcode = executed[i].opcode
                  /\ executed[j].before.program_counter = cpu.program_counter

(***************************************************************************)
(* C23: for every opcode the test of the durations tabulates, which are    *)
(* the 151 official opcodes, get_instruction_duration returns Ok with the  *)
(* tabulated cycle count.                                                  *)
(***************************************************************************)
C23_OfficialDurations ==
    (duration # NoDuration /\ opcode \in DOMAIN TestedDurations) =>
        duration = Ok(TestedDurations[opcode])

C23_StoreIndirectYTakesSix ==
    /\ opcode = 145
    /\ decoded = [instruction_type |-> "STA", addressing_mode |-> "IndirectY"]
    /\ duration = Ok(6)

IsPrgRamWrite(i) == IsWrite(i) /\ Op(i).address \in 24576..32767

(***************************************************************************)
(* C24: mapper 1: a write to the PRG-RAM window $6000-$7FFF, whatever its  *)
(* value and the state of the shift register, leaves the shift register,   *)
(* the mirroring, the two bank modes and the CHR-bank-0, CHR-bank-1 and    *)
(* PRG-bank registers as they were.                                        *)
(***************************************************************************)
C24_PrgRamWritesOutsideProtocol ==
    (Made >= 1 /\ IsPrgRamWrite(Made)) =>
        /\ Mmc1.shift_register = Mmc1Before(Made).shift_register
        /\ Registers(Mmc1) = Registers(Mmc1Before(Made))

Modes(regs) == <<regs.mirroring, regs.prg_bank_mode, regs.chr_bank_mode>>

\* Only serial writes to $8000-$FFFF have been made, from the empty shift
\* register: the fifth and the tenth of them latch a register.
OnlySerialWrites ==
    /\ Made >= 1
    /\ \A i \in 1..Made : IsSerialWrite(i)
    /\ Mmc1Before(1).shift_register = 16

LatchesControl(i) == i % 5 = 0 /\ Op(i).address \in 32768..40959

MirroringOrder == <<"SingleScreenLower", "SingleScreenUpper", "Horizontal", "Vertical">>
PrgModeOrder == <<"Fullswitch", "Fullswitch", "Fixfirst", "Fixlast">>
ChrModeOrder == <<"Fullswitch", "Halfswitch">>

(***************************************************************************)
(* C26: mapper 1: latching the control register with the 5-bit value c     *)
(* returns no error and sets the mirroring to the (c mod 4)-th of          *)
(* single-screen-lower, single-screen-upper, horizontal, vertical, the     *)
(* PRG-bank mode to Switch-32K for bits 2-3 of c equal to 0 or 1,          *)
(* Fix-first-16K for 2 and Fix-last-16K for 3, and the CHR-bank mode to    *)
(* Switch-8K iff bit 4 of c is 0.                                          *)
(***************************************************************************)
C26_ControlDecode ==
    (FiveSerialWritesFromEmpty /\ Op(Made).address \in 32768..40959) =>
        /\ accesses[Made].result = "Ok"
        /\ Modes(Mmc1) = <<MirroringOrder[(Assembled(Made - 4) % 4) + 1],
                           PrgModeOrder[((Assembled(Made - 4) \div 4) % 4) + 1],
                           ChrModeOrder[(Assembled(Made - 4) \div 16) + 1]>>

C26_FixFirstHorizontalFourKiB ==
    /\ FiveSerialWritesFromEmpty
    /\ Made = 5
    /\ Op(Made).address = 40959
    /\ Op(Made).unit = "mapper"
    /\ Assembled(1) = 26
    /\ Modes(Mmc1) = <<"Horizontal", "Fixfirst", "Halfswitch">>

Mmc1RomLength == IF mapper.kind = 1 THEN mapper.prg_rom.len ELSE PrgLen(memory.cartridge)

\* The last operation made is a read of $8000-$FFFF in the given PRG-bank
\* mode.
BankedRead(mode) ==
    /\ Made >= 1
    /\ IsRead(Made)
    /\ Op(Made).address >= 32768
    /\ Mmc1.prg_bank_mode = mode

(***************************************************************************)
(* C27: mapper 1 in Fix-last-16K mode: when the PRG-bank register selects  *)
(* a bank the ROM contains, a read of a in $8000-$BFFF returns byte        *)
(* (a - $8000) of that bank; a read of a in $C000-$FFFF returns byte       *)
(* (a - $C000) of the last 16-KiB bank of the PRG-ROM.                     *)
(***************************************************************************)
C27_FixLastReads ==
    BankedRead("Fixlast") =>
        /\ (Op(Made).address < 49152 /\ (Mmc1.prg_bank + 1) * 16384 <= Mmc1RomLength) =>
              /\ accesses[Made].result = "Ok"
              /\ accesses[Made].value =
                    BankedByte(Mmc1.prg_bank * 16384 + Op(Made).address - 32768)
        /\ Op(Made).address >= 49152 =>
              /\ accesses[Made].result = "Ok"
              /\ accesses[Made].value =
                    BankedByte(Mmc1RomLength - 16384 + Op(Made).address - 49152)

(***************************************************************************)
(* C28: mapper 1 in Switch-32K mode: a read of a in $8000-$FFFF returns    *)
(* PRG-ROM byte (PRG-bank >> 1) * $8000 + (a - $8000), when the ROM        *)
(* contains it: bit 0 of the PRG-bank register has no effect.              *)
(***************************************************************************)
C28_Switch32KReads ==
    (/\ BankedRead("Fullswitch")
     /\ ((Mmc1.prg_bank \div 2) + 1) * 32768 <= Mmc1RomLength) =>
        /\ accesses[Made].result = "Ok"
        /\ accesses[Made].value =
              BankedByte((Mmc1.prg_bank \div 2) * 32768 + Op(Made).address - 32768)

IsChrRead(i) == Op(i).op = "chr_read"

\* The CHR byte the bank registers select for offset o.
ChrTarget(regs, o) ==
    CASE regs.chr_bank_mode = "Fullswitch" -> (regs.chr_bank_0 \div 2) * 8192 + o
      [] o < 4096 -> regs.chr_bank_0 * 4096 + o
      [] OTHER -> regs.chr_bank_1 * 4096 + (o - 4096)

(***************************************************************************)
(* C29: a read of character data at offset o returns, when the CHR-ROM     *)
(* contains it, CHR byte (CHR-bank-0 >> 1) * $2000 + o in 8-KiB mode, and  *)
(* in two-4-KiB mode CHR byte CHR-bank-0 * $1000 + o for o below $1000 and *)
(* CHR-bank-1 * $1000 + (o - $1000) for o in $1000-$1FFF.                  *)
(***************************************************************************)
C29_ChrBankedReads ==
    (/\ Made >= 1
     /\ IsChrRead(Made)
     /\ ChrTarget(Mmc1, Op(Made).address) < ChrLen(memory.cartridge)) =>
        /\ accesses[Made].result = "Ok"
        /\ accesses[Made].value = ChrByte(ChrTarget(Mmc1, Op(Made).address))

\* The pointer that follows the opcode of the instruction executed last.
PointerOperand ==
    RamByte((Before.program_counter + 1) % 65536)
      + 256 * RamByte((Before.program_counter + 2) % 65536)

\* The address after the pointer within the pointer's page.
SamePageSuccessor(pointer) == (pointer - (pointer % 256)) + ((pointer + 1) % 256)

(***************************************************************************)
(* C30: JMP (pointer) sets PC to the word whose low byte is at the pointer *)
(* and whose high byte is at the next address of the same page: for a      *)
(* pointer $xxFF the high byte comes from $xx00.                           *)
(***************************************************************************)
C30_IndirectPointerStaysInPage ==
    (Ran("instructions", {"JMP"}) /\ LastMode = "Indirect" /\ Len(executed) = 1) =>
        /\ outcome = "Ok"
        /\ cpu.program_counter =
              RamByte(PointerOperand) + 256 * RamByte(SamePageSuccessor(PointerOperand))

\* The zero-page address the operand byte and an index give, wrapped in
\* page zero, and the word of page zero at a pointer wrapped likewise.
WrappedZeroPage(index) == (OperandByte + index) % 256
ZeroPageWord(pointer) == RamByte(pointer) + 256 * RamByte((pointer + 1) % 256)
First(kinds, mode) ==
    Ran("instructions", kinds) /\ LastMode = mode /\ Len(executed) = 1

(***************************************************************************)
(* C31: zero-page indexing wraps in page zero: ZeroPageX addresses         *)
(* (ll + X) mod 256, ZeroPageY addresses (ll + Y) mod 256, and IndirectX   *)
(* takes its pointer from (ll + X) mod 256 and (ll + X + 1) mod 256.       *)
(* Observed through loads (the register receives the byte at that address) *)
(* and stores (that address receives the register).                        *)
(***************************************************************************)
C31_ZeroPageIndexWraps ==
    /\ First({"LDA"}, "ZeroPageX") =>
          /\ outcome = "Ok"
          /\ cpu.accumulator = PatternByte(WrappedZeroPage(Before.x_register))
    /\ First({"LDX"}, "ZeroPageY") =>
          /\ outcome = "Ok"
          /\ cpu.x_register = PatternByte(WrappedZeroPage(Before.y_register))
    /\ First({"STA"}, "ZeroPageX") =>
          /\ outcome = "Ok"
          /\ RamByte(WrappedZeroPage(Before.x_register)) = Before.accumulator
    /\ First({"STX"}, "ZeroPageY") =>
          /\ outcome = "Ok"
          /\ RamByte(WrappedZeroPage(Before.y_register)) = Before.x_register
    /\ (/\ First({"LDA"}, "IndirectX")
        /\ ZeroPageWord(WrappedZeroPage(Before.x_register)) < 8192) =>
          /\ outcome = "Ok"
          /\ cpu.accumulator =
                RamByte(ZeroPageWord(WrappedZeroPage(Before.x_register)))

\* The address IndirectY gives with a 16-bit addition of Y.
IndirectYTarget ==
    (ZeroPageWord(OperandByte) + Before.y_register) % 65536

(***************************************************************************)
(* C32: IndirectY addresses (mem[ll] + 256 * mem[(ll + 1) mod 256] + Y)    *)
(* mod 65536, carrying from the low byte into the high byte, and does not  *)
(* fail.  Observed through LDA (zp),Y: A receives the byte at that address *)
(* (checked where the address is in internal RAM).                         *)
(***************************************************************************)
C32_IndirectYCarries ==
    First({"LDA"}, "IndirectY") =>
        /\ outcome = "Ok"
        /\ IndirectYTarget < 8192 => cpu.accumulator = RamByte(IndirectYTarget)

StoreKinds == {"STA", "STX", "STY", "SAX"}

\* The byte the store executed last puts on the bus.
StoredByte ==
    CASE LastKind = "STA" -> Before.accumulator
      [] LastKind = "STX" -> Before.x_register
      [] LastKind = "STY" -> Before.y_register
      [] LastKind = "SAX" -> BitAnd(Before.x_register, Before.accumulator)

(***************************************************************************)
(* C33: a store (STA, STX, STY, SAX) performs no bus read of its effective *)
(* address: after a store as the first instruction the controller, whose   *)
(* read index every read of $4016 advances, is as the single write leaves  *)
(* it (as constructed when the store goes elsewhere), RAM holds the stored *)
(* byte, and the store does not fail.                                      *)
(***************************************************************************)
C33_StoresDoNotRead ==
    First(StoreKinds, "Absolute") =>
        /\ outcome = "Ok"
        /\ memory.controller =
              IF PointerOperand = 16406
              THEN ControllerWrite(ControllerNew, StoredByte, ppu)
              ELSE ControllerNew
        /\ PointerOperand < 8192 => RamByte(PointerOperand) = StoredByte

\* The byte on the stack page at S + k, S being the stack pointer before
\* the instruction executed last.
StackByte(k) == RamByte(256 + ((Before.stack_pointer + k + 256) % 256))
ReturnWord == (Before.program_counter + 2) % 65536
PulledWord == StackByte(1) + 256 * StackByte(2)

(***************************************************************************)
(* C34: the return address is a 16-bit quantity: JSR pushes the word       *)
(* (address of the next instruction - 1) mod 65536, high byte first, and   *)
(* RTS sets PC to (pulled word + 1) mod 65536, also when the low byte      *)
(* borrows or carries.                                                     *)
(***************************************************************************)
C34_ReturnAddressSixteenBit ==
    /\ Ran("instructions", {"JSR"}) =>
          /\ outcome = "Ok"
          /\ StackByte(0) = get_hibyte(ReturnWord)
          /\ StackByte(-1) = get_lobyte(ReturnWord)
          /\ cpu.stack_pointer = (Before.stack_pointer + 254) % 256
    /\ Ran("instructions", {"RTS"}) =>
          /\ outcome = "Ok"
          /\ cpu.program_counter = (PulledWord + 1) % 65536
          /\ cpu.stack_pointer = (Before.stack_pointer + 2) % 256

\* The zero-page opcodes of the two instructions a composite chains.
CompositeParts(kind) ==
    CASE kind = "SLO" -> <<6, 5>>
      [] kind = "RLA" -> <<38, 37>>
      [] kind = "SRE" -> <<70, 69>>
      [] kind = "DCP" -> <<198, 197>>
      [] kind = "ISC" -> <<230, 229>>
      [] kind = "RRA" -> <<102, 101>>

\* The machine the composite started from, with the two chained
\* instructions in place of the composite, and that machine after both.
PairStart(parts) ==
    [Machine EXCEPT
       !.cpu = Before,
       !.memory = Poke(NromMemory(32768, <<parts[1], 16, parts[2], 16>>),
                       16, RamByte(32770))]
PairEnd(parts) == tick(tick(PairStart(parts)).st).st

SameAs(pair, flags) ==
    /\ pair.result = "Ok"
    /\ RamByte(16) = Cell(pair.memory.internal_ram, 16)
    /\ cpu.accumulator = pair.cpu.accumulator
    /\ \A f \in flags : cpu.status_register[f] = pair.cpu.status_register[f]

(***************************************************************************)
(* C35: SLO, RLA and SRE leave the memory byte, A and the flags N, Z and C *)
(* as ASL, ROL or LSR on the memory byte followed by ORA, AND or EOR with  *)
(* the modified byte leave them.                                           *)
(***************************************************************************)
C35_ShiftCompositesChain ==
    First({"SLO", "RLA", "SRE"}, "ZeroPage") =>
        /\ outcome = "Ok"
        /\ SameAs(PairEnd(CompositeParts(LastKind)),
                  {"negative_bit", "zero_bit", "carry_bit"})

(***************************************************************************)
(* C36: DCP, ISC and RRA leave the memory byte, A and the flags N, Z, C    *)
(* and V as DEC, INC or ROR on the memory byte followed by CMP, SBC or ADC *)
(* with the modified byte leave them.                                      *)
(***************************************************************************)
C36_ArithmeticCompositesChain ==
    First({"DCP", "ISC", "RRA"}, "ZeroPage") =>
        /\ outcome = "Ok"
        /\ SameAs(PairEnd(CompositeParts(LastKind)),
                  {"negative_bit", "zero_bit", "carry_bit", "overflow_bit"})

IsDma(i) == IsWrite(i) /\ Op(i).address = 16404

\* The byte a CPU read of `address` returned on the bus as it was before
\* the operation made last.
CpuReadBefore(address) ==
    MemoryRead([memory |-> accesses[Made].before, ppu |-> ppu, result |-> "Ok"],
               address).value

(***************************************************************************)
(* C37: a write of a page number p to $4014 completes and hands the        *)
(* picture generator a buffer whose byte i is the byte a CPU read of       *)
(* p * $100 + i returns, for every p; nothing else on the bus is written.  *)
(***************************************************************************)
C37_OamDmaCopiesPage ==
    (Made >= 1 /\ IsDma(Made)) =>
        /\ accesses[Made].result = "Ok"
        /\ \A i \in 0..255 :
              Cell(ppu.oam_dma, i) = CpuReadBefore(Op(Made).value * 256 + i)
        /\ [memory EXCEPT !.oamdata = accesses[Made].before.oamdata] = accesses[Made].before
        /\ ppu.registers = Empty

ValueAndAddressModes ==
    {"ZeroPage", "ZeroPageX", "ZeroPageY", "Absolute", "AbsoluteX", "AbsoluteY",
     "IndirectX", "IndirectY"}

\* The RAM cells that no longer hold their initial byte, and whether a cell
\* holds its initial byte minus one.
RamChanged == {i \in 0..2047 : RamByte(i) # OperandByteAt(i)}
Decremented(i) == RamByte(i) = (OperandByteAt(i) + 255) % 256
AbsoluteXTarget == (PointerOperand + Before.x_register) % 65536

(***************************************************************************)
(* C38: in every mode that returns a value and an address the value is the *)
(* byte stored at the address; AbsoluteX reads at base + X, and AbsoluteX  *)
(* and AbsoluteY do not fail.  Observed through DCP, which writes the      *)
(* value minus one to the address: the RAM cell it changes holds its own   *)
(* former byte minus one.                                                  *)
(***************************************************************************)
C38_ValueIsByteAtAddress ==
    (First({"DCP"}, LastMode) /\ LastMode \in ValueAndAddressModes) =>
        /\ LastMode \in {"AbsoluteX", "AbsoluteY"} => outcome = "Ok"
        /\ \A i \in RamChanged : Decremented(i)
        /\ (LastMode = "AbsoluteX" /\ AbsoluteXTarget < 8192) =>
              Decremented(AbsoluteXTarget % 2048)

\* The PRG-RAM of the implementation in use before operation i.
PrgRamBefore(i) ==
    IF Op(i).unit = "mapper" THEN accesses[i].before.pgr_ram
                             ELSE accesses[i].before.cartridge.pgr_ram

(***************************************************************************)
(* C39: mapper 1 PRG-RAM is a plain memory: a read that follows a write of *)
(* v to an address in $6000-$7FFF returns v when it reads that address,    *)
(* and the byte held before the write when it reads another PRG-RAM        *)
(* address; neither operation fails.                                       *)
(***************************************************************************)
C39_PrgRamReadsBackWrites ==
    (Made >= 2 /\ IsRead(Made) /\ IsPrgRamWrite(Made - 1)) =>
        /\ accesses[Made - 1].result = "Ok"
        /\ accesses[Made].result = "Ok"
        /\ accesses[Made].value =
              IF Op(Made).address = Op(Made - 1).address
              THEN Op(Made - 1).value
              ELSE Cell(PrgRamBefore(Made - 1), Op(Made).address - 24576)

IsPortAccess(i) == Op(i).address = 16406 /\ (IsRead(i) \/ IsWrite(i))
ControllerBefore(i) == accesses[i].before.controller

\* The last eight operations are reads of $4016 that started at index 0
\* with the strobe low.
EightReads ==
    /\ Made >= 8
    /\ \A i \in (Made - 7)..Made : IsPortRead(i)
    /\ ControllerBefore(Made - 7).read_index = 0
    /\ ~ControllerBefore(Made - 7).strobe

(***************************************************************************)
(* C40: after any interleaving of writes and reads of $4016 the read index *)
(* of the controller is in 0..7 and no read has reached the out-of-bounds  *)
(* abort; the index is 0 after the eighth read and after any access made   *)
(* while the strobe was high.                                              *)
(***************************************************************************)
C40_ReadIndexInRange ==
    /\ memory.controller.read_index \in 0..7
    /\ outcome = "Ok"
    /\ \A i \in 1..Made : IsPortRead(i) => accesses[i].result = "Ok"
    /\ EightReads => memory.controller.read_index = 0
    /\ (Made >= 1 /\ IsPortAccess(Made) /\ ControllerBefore(Made).strobe) =>
          memory.controller.read_index = 0

\* Eight reads with the strobe low have brought the index from 0 over 7
\* back to 0.
C40_EighthReadWraps ==
    /\ EightReads
    /\ ControllerBefore(Made).read_index = 7
    /\ memory.controller.read_index = 0
    /\ accesses[Made].result = "Ok"

====
